---- MODULE Spec2Model ----
(***************************************************************************)
(* Preview pipeline of television (src/src/model/previewer.rs): the        *)
(* Previewer (cache lookup, in-flight guard, bounded background jobs),     *)
(* try_preview (the background job), format_command, PreviewCache and      *)
(* RingSet.                                                                *)
(*                                                                         *)
(* Strings are sequences of one-character strings, so that concatenation,  *)
(* splitting and placeholder replacement are computed, not assumed.        *)
(***************************************************************************)
EXTENDS Bags, FiniteSets, Integers, Naturals, Sequences, TLC

(***************************************************************************)
(* Bounds of the model.                                                    *)
(***************************************************************************)
\* capacity given to PreviewCache::new; the program's default is 100
\* (DEFAULT_PREVIEW_CACHE_SIZE), the eviction logic is the same for any size
CacheCapacity == 2

(***************************************************************************)
(* Program constants.                                                      *)
(***************************************************************************)
MAX_CONCURRENT_PREVIEW_TASKS == 3
\* AtomicU8: fetch_add / fetch_sub wrap modulo 2^8
U8Modulus == 256

(***************************************************************************)
(* The inputs the callers draw from.                                       *)
(***************************************************************************)
\* entry names: a blank name, a one-field name, a two-field name
Names == { <<" ">>, <<"a">>, <<"a", ":", "b">> }
\* preview command templates of the channel
Templates == { <<"{", "}">>, <<"{", "1", "}">> }
\* the channel's delimiter
Delimiters == { <<":">> }
\* bytes a subprocess writes to stdout; "xFF" is a byte that is not UTF-8
Stdouts == { <<"x", "xFF">> }
\* bytes a subprocess writes to stderr
Stderrs == { <<"e">> }

(***************************************************************************)
(* String helpers (Rust std / regex semantics).                            *)
(***************************************************************************)
Whitespace == { " ", "\t", "\n", "\r" }
Digits == { "0", "1", "2", "3", "4", "5", "6", "7", "8", "9" }

DigitVal(ch) ==
    CASE ch = "0" -> 0 [] ch = "1" -> 1 [] ch = "2" -> 2 [] ch = "3" -> 3
      [] ch = "4" -> 4 [] ch = "5" -> 5 [] ch = "6" -> 6 [] ch = "7" -> 7
      [] ch = "8" -> 8 [] ch = "9" -> 9

\* str::trim().is_empty()
TrimIsEmpty(s) == \A i \in 1..Len(s) : s[i] \in Whitespace

\* does pattern p occur in s at position i
MatchAt(s, p, i) ==
    /\ i + Len(p) - 1 <= Len(s)
    /\ \A k \in 1..Len(p) : s[i + k - 1] = p[k]

\* str::split(pattern) for a non-empty pattern, collected into a Vec
RECURSIVE SplitFrom(_, _, _, _)
SplitFrom(s, d, i, cur) ==
    IF i > Len(s) THEN << cur >>
    ELSE IF MatchAt(s, d, i)
         THEN << cur >> \o SplitFrom(s, d, i + Len(d), << >>)
         ELSE SplitFrom(s, d, i + 1, Append(cur, s[i]))

Split(s, d) == SplitFrom(s, d, 1, << >>)

\* str::replace(from, to) for a non-empty pattern: leftmost, non-overlapping
RECURSIVE ReplaceFrom(_, _, _, _)
ReplaceFrom(s, from, to, i) ==
    IF i > Len(s) THEN << >>
    ELSE IF MatchAt(s, from, i)
         THEN to \o ReplaceFrom(s, from, to, i + Len(from))
         ELSE << s[i] >> \o ReplaceFrom(s, from, to, i + 1)

Replace(s, from, to) == ReplaceFrom(s, from, to, 1)

\* String::from_utf8_lossy: an invalid byte becomes U+FFFD
FromUtf8Lossy(bytes) ==
    [ i \in 1..Len(bytes) |-> IF bytes[i] = "xFF" THEN "uFFFD" ELSE bytes[i] ]

\* index of the last digit of the run of digits that starts at i (i - 1 if none)
RECURSIVE DigitRunEnd(_, _)
DigitRunEnd(s, i) ==
    IF i <= Len(s) /\ s[i] \in Digits THEN DigitRunEnd(s, i + 1) ELSE i - 1

\* decimal value of the digits s[i..j]
RECURSIVE DecimalValue(_, _, _)
DecimalValue(s, i, j) ==
    IF j < i THEN 0 ELSE 10 * DecimalValue(s, i, j - 1) + DigitVal(s[j])

(***************************************************************************)
(* format_command (previewer.rs:158-184).  The result is a record: tag     *)
(* "None", "Some" (with cmd) or "Panic" (the panic! of line 176).          *)
(* parse::<usize>() cannot overflow on the template lengths used here.     *)
(***************************************************************************)
\* COMMAND_PLACEHOLDER_REGEX \{(\d+)\} matches at i: the index of its closing
\* brace, or 0 when it does not match there
PlaceholderEnd(s, i) ==
    IF i <= Len(s) /\ s[i] = "{"
    THEN LET e == DigitRunEnd(s, i + 1)
         IN  IF e >= i + 1 /\ e + 1 <= Len(s) /\ s[e + 1] = "}"
             THEN e + 1 ELSE 0
    ELSE 0

\* variant of the closure of lines 170-180 that replaces a placeholder without
\* a part by the empty string instead of panicking
RECURSIVE ReplacePlaceholdersLenient(_, _, _)
ReplacePlaceholdersLenient(s, parts, i) ==
    IF i > Len(s) THEN [ panic |-> FALSE, out |-> << >> ]
    ELSE LET e == PlaceholderEnd(s, i)
         IN  IF e = 0
             THEN LET rest == ReplacePlaceholdersLenient(s, parts, i + 1)
                  IN  [ panic |-> FALSE, out |-> << s[i] >> \o rest.out ]
             ELSE LET index == DecimalValue(s, i + 1, e - 1)
                      rest == ReplacePlaceholdersLenient(s, parts, e + 1)
                  IN  [ panic |-> FALSE,
                        out |-> ( IF index + 1 > Len(parts) THEN << >>
                                  ELSE parts[index + 1] ) \o rest.out ]

\* Regex::replace_all with the closure of lines 170-180: every match, left to
\* right and non-overlapping, is replaced by parts[index]; an index with no
\* part panics.  The replacement text is not scanned again.
RECURSIVE ReplacePlaceholders(_, _, _)
ReplacePlaceholders(s, parts, i) ==
    IF i > Len(s) THEN [ panic |-> FALSE, out |-> << >> ]
    ELSE LET e == PlaceholderEnd(s, i)
         IN  IF e = 0
             THEN LET rest == ReplacePlaceholders(s, parts, i + 1)
                  IN  [ panic |-> rest.panic, out |-> << s[i] >> \o rest.out ]
             ELSE LET index == DecimalValue(s, i + 1, e - 1)
                  IN  IF index + 1 > Len(parts)
                      THEN [ panic |-> TRUE, out |-> << >> ]
                      ELSE LET rest == ReplacePlaceholders(s, parts, e + 1)
                           IN  [ panic |-> rest.panic,
                                 out |-> parts[index + 1] \o rest.out ]

\* variant of format_command without the blank-name test of lines 161-163
format_command_no_blank_test(command, delimiter, name) ==
    LET parts == Split(name, delimiter)
        formatted == Replace(command, << "{", "}" >>, name)
        r == ReplacePlaceholders(formatted, parts, 1)
    IN  IF r.panic THEN [ tag |-> "Panic", cmd |-> << >> ]
        ELSE [ tag |-> "Some", cmd |-> r.out ]

format_command(command, delimiter, name) ==
    LET parts == Split(name, delimiter)
    IN  IF TrimIsEmpty(name) THEN [ tag |-> "None", cmd |-> << >> ]
        ELSE LET formatted == Replace(command, << "{", "}" >>, name)
                 r == ReplacePlaceholders(formatted, parts, 1)
             IN  IF r.panic THEN [ tag |-> "Panic", cmd |-> << >> ]
                 ELSE [ tag |-> "Some", cmd |-> r.out ]

(***************************************************************************)
(* Preview values (previewer.rs:19-82).                                    *)
(***************************************************************************)
PreviewNew(title, content, stale) ==
    [ title |-> title, content |-> content, icon |-> "None", stale |-> stale ]

Empty == [ kind |-> "Empty", text |-> << >> ]
AnsiText(text) == [ kind |-> "AnsiText", text |-> text ]

\* Preview::default()
PreviewDefault == PreviewNew(<< >>, Empty, FALSE)

FileTooLarge == [ kind |-> "FileTooLarge", text |-> << >> ]
Loading == [ kind |-> "Loading", text |-> << >> ]
NotSupported == [ kind |-> "NotSupported", text |-> << >> ]

u16_MAX == 65535

\* str::lines().count(): a line for every LF, and one for what follows the
\* last LF when that is not empty
lines_count(text) ==
    Cardinality({ i \in 1..Len(text) : text[i] = "\n" })
      + ( IF text # << >> /\ text[Len(text)] # "\n" THEN 1 ELSE 0 )

\* usize::try_into::<u16>().unwrap_or(u16::MAX)
try_into_or_max(n) == IF n <= u16_MAX THEN n ELSE u16_MAX

\* `as u16` in place of the checked conversion
as_u16(n) == n % (u16_MAX + 1)

\* Preview::total_lines with a conversion that wraps
total_lines_wrapping(p) ==
    IF p.content.kind = "AnsiText"
    THEN as_u16(lines_count(p.content.text))
    ELSE 0

\* Preview::total_lines (previewer.rs:76-81)
total_lines(p) ==
    IF p.content.kind = "AnsiText"
    THEN try_into_or_max(lines_count(p.content.text))
    ELSE 0

\* Preview::stale(): a copy with stale = true
stale(p) == [ p EXCEPT !.stale = TRUE ]

\* variant of cache_key: the key is the entry name alone
cache_key_name_only(name, command) == name

\* the cache key of preview() and try_preview(): format!("{}{}", name, command)
cache_key(name, command) == name \o command

\* the prefix of the error text of line 219, kept as one token
ErrorPrefix == << "error running command: " >>

\* the preview built from a successful run (lines 205-211)
SuccessPreview(name, stdout) ==
    PreviewNew(name, AnsiText(FromUtf8Lossy(stdout)), FALSE)

\* the preview built from a failed run (lines 218-226)
ErrorPreview(name, cmd, stderr) ==
    PreviewNew(name,
               AnsiText(ErrorPrefix \o cmd \o << "\n" >> \o FromUtf8Lossy(stderr)),
               FALSE)

(***************************************************************************)
(* RingSet (previewer.rs:411-465): a record of ring_buffer, known_keys and *)
(* capacity.  An Option is a record: some, and val when some.              *)
(***************************************************************************)
None == [ some |-> FALSE, val |-> << >> ]
Some(v) == [ some |-> TRUE, val |-> v ]

with_capacity(capacity) ==
    [ ring_buffer |-> << >>, known_keys |-> {}, capacity |-> capacity ]

contains(rs, key) == key \in rs.known_keys

\* variant of pop that takes the newest key, from the back of the buffer
pop_back(rs) ==
    IF Len(rs.ring_buffer) > 0
    THEN LET item == rs.ring_buffer[Len(rs.ring_buffer)]
         IN  [ rs |-> [ rs EXCEPT !.ring_buffer =
                                     SubSeq(rs.ring_buffer, 1, Len(rs.ring_buffer) - 1),
                                  !.known_keys = rs.known_keys \ { item } ],
               popped |-> Some(item) ]
    ELSE [ rs |-> rs, popped |-> None ]

\* RingSet::pop: the new ring set and the popped item
pop(rs) ==
    IF Len(rs.ring_buffer) > 0
    THEN LET item == Head(rs.ring_buffer)
         IN  [ rs |-> [ rs EXCEPT !.ring_buffer = Tail(rs.ring_buffer),
                                  !.known_keys = rs.known_keys \ { item } ],
               popped |-> Some(item) ]
    ELSE [ rs |-> rs, popped |-> None ]

\* variant of push that moves a key already present to the back of the buffer
push_refresh(rs, item) ==
    IF contains(rs, item)
    THEN [ rs |-> [ rs EXCEPT !.ring_buffer =
                                 Append(SelectSeq(rs.ring_buffer,
                                                  LAMBDA x : x # item), item) ],
           popped |-> None ]
    ELSE LET p == IF Len(rs.ring_buffer) >= rs.capacity
                  THEN pop(rs)
                  ELSE [ rs |-> rs, popped |-> None ]
         IN  [ rs |-> [ p.rs EXCEPT !.ring_buffer = Append(p.rs.ring_buffer, item),
                                    !.known_keys = p.rs.known_keys \cup { item } ],
               popped |-> p.popped ]

\* RingSet::push: the new ring set and the item that was removed, if any
push(rs, item) ==
    IF contains(rs, item) THEN [ rs |-> rs, popped |-> None ]
    ELSE LET p == IF Len(rs.ring_buffer) >= rs.capacity
                  THEN pop(rs)
                  ELSE [ rs |-> rs, popped |-> None ]
         IN  [ rs |-> [ p.rs EXCEPT !.ring_buffer = Append(p.rs.ring_buffer, item),
                                    !.known_keys = p.rs.known_keys \cup { item } ],
               popped |-> p.popped ]

(***************************************************************************)
(* PreviewCache (previewer.rs:359-396): entries is a function from the     *)
(* keys present to previews.                                               *)
(***************************************************************************)
PreviewCacheNew(capacity) ==
    [ entries |-> [ k \in {} |-> PreviewDefault ],
      ring_set |-> with_capacity(capacity) ]

\* variant of get: the lookup never finds the key
get_miss(c, key) == None

\* PreviewCache::get
get(c, key) ==
    IF key \in DOMAIN c.entries THEN Some(c.entries[key]) ELSE None

\* variant of insert that records the key in the ring but not the value
insert_ring_only(c, key, preview) ==
    [ entries |-> c.entries, ring_set |-> push(c.ring_set, key).rs ]

\* variant of insert that does not remove the key the ring set gave up
insert_no_evict(c, key, preview) ==
    [ entries |-> [ k \in DOMAIN c.entries \cup { key } |->
                      IF k = key THEN preview ELSE c.entries[k] ],
      ring_set |-> push(c.ring_set, key).rs ]

\* PreviewCache::insert
insert(c, key, preview) ==
    LET written == [ k \in DOMAIN c.entries \cup { key } |->
                       IF k = key THEN preview ELSE c.entries[k] ]
        r == push(c.ring_set, key)
    IN  [ entries |-> IF r.popped.some
                      THEN [ k \in DOMAIN written \ { r.popped.val } |-> written[k] ]
                      ELSE written,
          ring_set |-> r.rs ]

(***************************************************************************)
(* RenderedPreviewCache (previewer.rs:308-338): previews is a function     *)
(* from the keys present to rendered widgets.                              *)
(***************************************************************************)
DEFAULT_RENDERED_PREVIEW_CACHE_SIZE == 25

RenderedPreviewCacheNew(capacity) ==
    [ previews |-> [ k \in {} |-> "" ], ring_set |-> with_capacity(capacity) ]

\* RenderedPreviewCache::get
rendered_get(c, key) ==
    IF key \in DOMAIN c.previews THEN Some(c.previews[key]) ELSE None

\* RenderedPreviewCache::insert
rendered_insert(c, key, preview) ==
    LET written == [ k \in DOMAIN c.previews \cup { key } |->
                       IF k = key THEN preview ELSE c.previews[k] ]
        r == push(c.ring_set, key)
    IN  [ previews |-> IF r.popped.some
                       THEN [ k \in DOMAIN written \ { r.popped.val } |-> written[k] ]
                       ELSE written,
          ring_set |-> r.rs ]

(***************************************************************************)
(* The ANSI parser (src/src/ansi.rs).  A byte is a one-character string;   *)
(* ESC, BEL, LF and CR name the control bytes and "xFF" is a byte that is  *)
(* not valid UTF-8.  A nom parser is an operator from the input to a       *)
(* record: ok, the rest of the input, and the value parsed.                *)
(***************************************************************************)
ESC == "ESC"
BEL == "BEL"
LF == "\n"
CR == "\r"

\* nom::character::is_alphabetic
Alphabetic ==
    { "a", "b", "c", "d", "e", "f", "g", "h", "i", "j", "k", "l", "m",
      "n", "o", "p", "q", "r", "s", "t", "u", "v", "w", "x", "y", "z",
      "A", "B", "C", "D", "E", "F", "G", "H", "I", "J", "K", "L", "M",
      "N", "O", "P", "Q", "R", "S", "T", "U", "V", "W", "X", "Y", "Z" }

\* std::str::from_utf8 succeeds
ValidUtf8(bytes) == \A i \in 1..Len(bytes) : bytes[i] # "xFF"

Fail(s) == [ ok |-> FALSE, rest |-> s, val |-> << >> ]
Ok(rest, val) == [ ok |-> TRUE, rest |-> rest, val |-> val ]

Drop(s, n) == SubSeq(s, n + 1, Len(s))
Take(s, n) == SubSeq(s, 1, n)

\* the number of leading bytes of s that are not in stop
PrefixLen(s, stop) ==
    IF \E i \in 1..Len(s) : s[i] \in stop
    THEN ( CHOOSE i \in 1..Len(s) :
             s[i] \in stop /\ \A j \in 1..(i - 1) : s[j] \notin stop ) - 1
    ELSE Len(s)

\* opt(tag(t)): the input without a leading t
OptTag(s, t) == IF MatchAt(s, t, 1) THEN Drop(s, Len(t)) ELSE s

(***************************************************************************)
(* ratatui::style: a Color is a kind and its numbers; a Style is fg and bg *)
(* (Option<Color>) and the modifiers to add and to remove.                 *)
(***************************************************************************)
Color(kind) == [ kind |-> kind, v |-> << >> ]
Indexed(i) == [ kind |-> "Indexed", v |-> << i >> ]
Rgb(r, g, b) == [ kind |-> "Rgb", v |-> << r, g, b >> ]

\* Style::new
StyleNew == [ fg |-> None, bg |-> None, add_modifier |-> {}, sub_modifier |-> {} ]

\* Style::fg
fg(st, c) == [ st EXCEPT !.fg = Some(c) ]

\* Style::add_modifier
add_modifier(st, m) ==
    [ st EXCEPT !.sub_modifier = st.sub_modifier \ { m },
                !.add_modifier = st.add_modifier \cup { m } ]

\* Style::remove_modifier
remove_modifier(st, m) ==
    [ st EXCEPT !.add_modifier = st.add_modifier \ { m },
                !.sub_modifier = st.sub_modifier \cup { m } ]

\* Style::patch
patch(st, other) ==
    [ fg |-> IF other.fg.some THEN other.fg ELSE st.fg,
      bg |-> IF other.bg.some THEN other.bg ELSE st.bg,
      add_modifier |-> (st.add_modifier \ other.sub_modifier) \cup other.add_modifier,
      sub_modifier |-> (st.sub_modifier \ other.add_modifier) \cup other.sub_modifier ]

(***************************************************************************)
(* AnsiCode (ansi.rs:475-614).                                             *)
(***************************************************************************)
Code(name) == [ name |-> name, color |-> Color("Reset") ]
ForegroundColor(c) == [ name |-> "ForegroundColor", color |-> c ]
BackgroundColor(c) == [ name |-> "BackgroundColor", color |-> c ]

\* the names of codes 0-11 and 20-29, and the colours of 30-37 and 90-97
LowCodes == << "Bold", "Faint", "Italic", "Underline", "SlowBlink", "RapidBlink",
               "Reverse", "Conceal", "CrossedOut", "PrimaryFont", "AlternateFont" >>
OffCodes == << "Fraktur", "BoldOff", "Normal", "NotItalic", "UnderlineOff",
               "BlinkOff", "Code", "InvertOff", "Reveal", "CrossedOutOff" >>
DarkColors == << "Black", "Red", "Green", "Yellow", "Blue", "Magenta", "Cyan",
                 "Gray" >>
LightColors == << "DarkGray", "LightRed", "LightGreen", "LightYellow",
                  "LightBlue", "LightMagenta", "LightCyan", "White" >>

\* impl From<u8> for AnsiCode
AnsiCodeFrom(code) ==
    CASE code = 0 -> Code("Reset")
      [] code \in 1..11 -> Code(LowCodes[code])
      [] code \in 20..29 -> Code(OffCodes[code - 19])
      [] code \in 30..37 -> ForegroundColor(Color(DarkColors[code - 29]))
      [] code = 38 -> Code("SetForegroundColor")
      [] code = 39 -> Code("DefaultForegroundColor")
      [] code \in 40..47 -> BackgroundColor(Color(DarkColors[code - 39]))
      [] code = 48 -> Code("SetBackgroundColor")
      [] code = 49 -> Code("DefaultBackgroundColor")
      [] code \in 90..97 -> ForegroundColor(Color(LightColors[code - 89]))
      [] code \in 100..106 -> BackgroundColor(Color(LightColors[code - 99]))
      [] code = 107 -> ForegroundColor(Color("White"))
      [] OTHER -> Code("Code")

\* an AnsiItem (ansi.rs:62-66)
AnsiItem(code, color) == [ code |-> code, color |-> color ]

\* one arm of the match of lines 78-118: the style after item
ApplyItem(st, item) ==
    LET name == item.code.name
    IN  CASE name = "Bold" -> add_modifier(st, "BOLD")
          [] name = "Faint" -> add_modifier(st, "DIM")
          [] name = "Normal" -> remove_modifier(remove_modifier(st, "BOLD"), "DIM")
          [] name = "Italic" -> add_modifier(st, "ITALIC")
          [] name = "Underline" -> add_modifier(st, "UNDERLINED")
          [] name = "SlowBlink" -> add_modifier(st, "SLOW_BLINK")
          [] name = "RapidBlink" -> add_modifier(st, "RAPID_BLINK")
          [] name = "Reverse" -> add_modifier(st, "REVERSED")
          [] name = "Conceal" -> add_modifier(st, "HIDDEN")
          [] name = "CrossedOut" -> add_modifier(st, "CROSSED_OUT")
          [] name = "DefaultForegroundColor" -> fg(st, Color("Reset"))
          [] name = "SetForegroundColor" ->
                IF item.color.some THEN fg(st, item.color.val) ELSE st
          [] name = "ForegroundColor" -> fg(st, item.code.color)
          [] name = "Reset" -> fg(st, Color("Reset"))
          [] OTHER -> st

\* impl From<AnsiStates> for Style (ansi.rs:74-122)
RECURSIVE StyleFrom(_, _)
StyleFrom(st, items) ==
    IF items = << >> THEN st
    ELSE StyleFrom(ApplyItem(st, Head(items)), Tail(items))

(***************************************************************************)
(* The parsers of ansi::parser (ansi.rs:155-353).  A result that is used   *)
(* several times is bound once, as the element of a singleton set.         *)
(***************************************************************************)
\* the element of a singleton set
The(S) == CHOOSE x \in S : TRUE

\* nom not_line_ending: the bytes before the first CR or LF; an error when
\* that byte is a CR that no LF follows
not_line_ending(s) ==
    The({ IF n = Len(s) THEN Ok(<< >>, s)
          ELSE IF s[n + 1] = CR /\ ~MatchAt(s, << CR, LF >>, n + 1) THEN Fail(s)
          ELSE Ok(Drop(s, n), Take(s, n))
        : n \in { PrefixLen(s, { CR, LF }) } })

\* opt(alt((tag("\r\n"), tag("\n")))) of line 160
line_ending(s) ==
    IF MatchAt(s, << CR, LF >>, 1) THEN Drop(s, 2) ELSE OptTag(s, << LF >>)

\* nom u8: a run of decimal digits whose value fits a u8
u8(s) ==
    The({ IF e = 0 THEN Fail(s)
          ELSE The({ IF value > 255 THEN Fail(s) ELSE Ok(Drop(s, e), value)
                   : value \in { DecimalValue(s, 1, e) } })
        : e \in { DigitRunEnd(s, 1) } })

\* nom i64: an optional sign and a run of decimal digits
i64(s) ==
    LET signed == s # << >> /\ s[1] \in { "-", "+" }
        digits == IF signed THEN Drop(s, 1) ELSE s
    IN  The({ IF e = 0 THEN Fail(s)
              ELSE Ok(Drop(digits, e),
                      IF signed /\ s[1] = "-" THEN 0 - DecimalValue(digits, 1, e)
                      ELSE DecimalValue(digits, 1, e))
            : e \in { DigitRunEnd(digits, 1) } })

\* color_type that takes every type but 2 for an indexed colour
color_type_lenient(s) ==
    The({ IF ~t.ok \/ ~MatchAt(t.rest, << ";" >>, 1) THEN Fail(s)
          ELSE IF t.val = 2 THEN Ok(Drop(t.rest, 1), "TrueColor")
          ELSE Ok(Drop(t.rest, 1), "EightBit")
        : t \in { i64(s) } })

\* color_type (ansi.rs:350-363)
color_type(s) ==
    The({ IF ~t.ok \/ ~MatchAt(t.rest, << ";" >>, 1) THEN Fail(s)
          ELSE CASE t.val = 2 -> Ok(Drop(t.rest, 1), "TrueColor")
                 [] t.val = 5 -> Ok(Drop(t.rest, 1), "EightBit")
                 [] OTHER -> Fail(s)
        : t \in { i64(s) } })

\* tuple((u8, tag(";"), u8, tag(";"), u8)) of line 341, as a colour
true_color(s) ==
    The({ IF ~( r.ok /\ MatchAt(r.rest, << ";" >>, 1) ) THEN Fail(s)
          ELSE The({ IF ~( g.ok /\ MatchAt(g.rest, << ";" >>, 1) ) THEN Fail(s)
                     ELSE The({ IF ~b.ok THEN Fail(s)
                                ELSE Ok(b.rest, Rgb(r.val, g.val, b.val))
                              : b \in { u8(Drop(g.rest, 1)) } })
                   : g \in { u8(Drop(r.rest, 1)) } })
        : r \in { u8(s) } })

\* u8 of line 345, as a colour
eight_bit(s) ==
    The({ IF index.ok THEN Ok(index.rest, Indexed(index.val)) ELSE Fail(s)
        : index \in { u8(s) } })

\* color (ansi.rs:336-348)
color(s) ==
    The({ IF ~c_type.ok THEN Fail(s)
          ELSE The({ IF ~c.ok THEN Fail(s) ELSE c
                   : c \in { IF c_type.val = "TrueColor"
                             THEN true_color(OptTag(c_type.rest, << ";" >>))
                             ELSE eight_bit(OptTag(c_type.rest, << ";" >>)) } })
        : c_type \in { color_type(s) } })

\* the colour argument of codes 38 and 48 (lines 324-328) and the optional
\* semicolon of line 332
colored_item(s, code, rest) ==
    The({ IF ~col.ok THEN Fail(s)
          ELSE Ok(OptTag(col.rest, << ";" >>), AnsiItem(code, Some(col.val)))
        : col \in { color(OptTag(rest, << ";" >>)) } })

\* ansi_sgr_item (ansi.rs:320-334)
ansi_sgr_item(s) ==
    The({ IF ~c.ok THEN Fail(s)
          ELSE The({ IF code.name \in { "SetForegroundColor", "SetBackgroundColor" }
                     THEN colored_item(s, code, c.rest)
                     ELSE Ok(OptTag(c.rest, << ";" >>), AnsiItem(code, None))
                   : code \in { AnsiCodeFrom(c.val) } })
        : c \in { u8(s) } })

\* fold_many0(ansi_sgr_item, ...) of lines 291-294: the items parsed until
\* ansi_sgr_item fails, and the input left
RECURSIVE fold_many0(_)
fold_many0(s) ==
    The({ IF ~item.ok THEN Ok(s, << >>)
          ELSE The({ Ok(more.rest, << item.val >> \o more.val)
                   : more \in { fold_many0(item.rest) } })
        : item \in { ansi_sgr_item(s) } })

\* ansi_sgr_code (ansi.rs:286-297)
ansi_sgr_code(s) ==
    IF ~MatchAt(s, << ESC, "[" >>, 1) THEN Fail(s)
    ELSE The({ IF MatchAt(items.rest, << "m" >>, 1)
               THEN Ok(Drop(items.rest, 1), items.val)
               ELSE Fail(s)
             : items \in { fold_many0(Drop(s, 2)) } })

\* delimited without the opt(take(1)) that consumes the final byte
delimited_keep_final(s, stop) == Drop(s, PrefixLen(s, stop))

\* delimited(char(open), take_till(stop), opt(take(1))) of lines 312-313, on
\* the input after open
delimited(s, stop) ==
    The({ IF body = << >> THEN body ELSE Drop(body, 1)
        : body \in { Drop(s, PrefixLen(s, stop)) } })

\* any_escape_sequence without the fallback of line 316
any_escape_sequence_no_fallback(s) ==
    IF MatchAt(s, << ESC, "[" >>, 1)
    THEN Ok(delimited(Drop(s, 2), Alphabetic), None)
    ELSE IF MatchAt(s, << ESC, "]" >>, 1)
    THEN Ok(delimited(Drop(s, 2), { BEL }), None)
    ELSE Fail(s)

\* any_escape_sequence that consumes the ESC alone
any_escape_sequence_esc_only(s) ==
    IF MatchAt(s, << ESC >>, 1) THEN Ok(Drop(s, 1), None) ELSE Fail(s)

\* any_escape_sequence (ansi.rs:299-318)
any_escape_sequence(s) ==
    IF ~MatchAt(s, << ESC >>, 1) THEN Fail(s)
    ELSE IF MatchAt(s, << ESC, "[" >>, 1)
    THEN Ok(delimited(Drop(s, 2), Alphabetic), None)
    ELSE IF MatchAt(s, << ESC, "]" >>, 1)
    THEN Ok(delimited(Drop(s, 2), { BEL }), None)
    ELSE Ok(Drop(s, 1), None)

\* style without the implicit reset of lines 266-272
style_no_implicit_reset(last, s) ==
    The({ IF sgr.ok
          THEN Ok(sgr.rest, Some(StyleFrom(last, sgr.val)))
          ELSE The({ IF other.ok THEN Ok(other.rest, None) ELSE Fail(s)
                   : other \in { any_escape_sequence(s) } })
        : sgr \in { ansi_sgr_code(s) } })

\* style (ansi.rs:259-284): the value is an Option<Style>
style(last, s) ==
    The({ IF sgr.ok
          THEN Ok(sgr.rest,
                  Some(StyleFrom(last, IF sgr.val = << >>
                                       THEN << AnsiItem(Code("Reset"), None) >>
                                       ELSE sgr.val)))
          ELSE The({ IF other.ok THEN Ok(other.rest, None) ELSE Fail(s)
                   : other \in { any_escape_sequence(s) } })
        : sgr \in { ansi_sgr_code(s) } })

\* Span::styled
Span(content, st) == [ content |-> content, style |-> st ]

\* the text of lines 216-224 and the span of line 231, after the optional
\* style maybe_style of line 214
styled_text(last, s, maybe_style) ==
    The({ IF ~ValidUtf8(Take(s1, n)) THEN Fail(s)
          ELSE Ok(Drop(s1, n),
                  Span(Take(s1, n),
                       IF maybe_style.ok /\ maybe_style.val.some
                       THEN patch(last, maybe_style.val.val)
                       ELSE last))
        : s1 \in { IF maybe_style.ok THEN maybe_style.rest ELSE s },
          n \in { PrefixLen(IF maybe_style.ok THEN maybe_style.rest ELSE s,
                            { ESC }) } })

\* span (ansi.rs:209-233)
span(last, s) ==
    The({ styled_text(last, s, maybe_style) : maybe_style \in { style(last, s) } })

(***************************************************************************)
(* State of the Previewer and of the tasks it has spawned.                 *)
(***************************************************************************)
VARIABLES
    cache,                    \* Previewer.cache
    concurrent_preview_tasks, \* Previewer.concurrent_preview_tasks (AtomicU8)
    last_previewed,           \* Previewer.last_previewed
    in_flight_previews,       \* Previewer.in_flight_previews
    jobs,                     \* bag of the spawned try_preview tasks that have not ended
    halted,                   \* the process has exited through the panic hook
    ret,                      \* the latest step: the branch that ran and, for
                              \* preview(), the value it returned
    selected,                 \* the entry, command and delimiter the render loop
                              \* is held on, or Unselected while the user browses
    ring,                     \* a RingSet<T> used on its own
    rendered_preview_cache,   \* Television.rendered_preview_cache
    history,                  \* the calls made on ring or on a cache, in order
    parser,                   \* a call of ansi::parser::text: its input, where it
                              \* is, and its locals
    television,               \* Television: preview_scroll, preview_pane_height
                              \* and current_preview_total_lines
    picker                    \* a Picker used on its own

vars == << cache, concurrent_preview_tasks, last_previewed, in_flight_previews,
           jobs, halted, ret, selected, ring, rendered_preview_cache, history,
           parser, television, picker >>

\* the state the Previewer's own operations leave alone
bench == << ring, rendered_preview_cache, history, parser, television, picker >>

\* the same, the picker left out
bench_no_picker == << ring, rendered_preview_cache, history, parser, television >>

\* the render loop is not held on one entry
Unselected == << >>

\* the scroll fields of Television::new (television.rs:165-168)
TelevisionNew ==
    [ preview_scroll |-> None, preview_pane_height |-> 0,
      current_preview_total_lines |-> 0 ]

\* Picker::new (picker.rs:24-31), ListState::default() selecting nothing
PickerNew == [ state |-> None, relative_state |-> None, inverted |-> FALSE ]

\* no call of the parser is under way
ParserIdle == [ pc |-> "idle" ]

\* no preview built yet: the local `preview` of a task before line 206
NoPreview == PreviewDefault

\* a spawned task: the arguments moved into it (lines 132-137), where it is
\* in try_preview, and its local `preview`
Job(name, command, delimiter, pc, preview) ==
    [ name |-> name, command |-> command, delimiter |-> delimiter,
      pc |-> pc, preview |-> preview ]

\* the outcome of a preview() call
Returned(branch, value) == [ branch |-> branch, value |-> value ]
\* the outcome of a step of a task, which returns nothing
Stepped(branch) == [ branch |-> branch, value |-> NoPreview ]

\* Previewer::new (lines 95-104)
Init ==
    /\ cache = PreviewCacheNew(CacheCapacity)
    /\ concurrent_preview_tasks = 0
    /\ last_previewed = stale(PreviewDefault)
    /\ in_flight_previews = {}
    /\ jobs = EmptyBag
    /\ halted = FALSE
    /\ ret = Stepped("new")
    /\ selected = Unselected
    /\ ring = with_capacity(CacheCapacity)
    /\ rendered_preview_cache =
         RenderedPreviewCacheNew(DEFAULT_RENDERED_PREVIEW_CACHE_SIZE)
    /\ history = << >>
    /\ parser = ParserIdle
    /\ television = TelevisionNew
    /\ picker = PickerNew

\* variant of HasBudget: the limit itself still admits a task
HasBudgetOffByOne == concurrent_preview_tasks <= MAX_CONCURRENT_PREVIEW_TASKS

\* variant of HasBudget: the counter is not consulted
HasBudgetIgnored == concurrent_preview_tasks < U8Modulus

\* the test of line 127
HasBudget == concurrent_preview_tasks < MAX_CONCURRENT_PREVIEW_TASKS

\* variant of preview that shows an empty placeholder once it started a task
preview_clears_last(name, command, delimiter) ==
    /\ ~halted
    /\ LET hit == get(cache, cache_key(name, command))
       IN  IF hit.some
           THEN /\ ret' = Returned("hit", hit.val)
                /\ UNCHANGED << concurrent_preview_tasks, jobs, last_previewed >>
           ELSE IF name \in in_flight_previews
           THEN /\ ret' = Returned("in_flight", last_previewed)
                /\ UNCHANGED << concurrent_preview_tasks, jobs, last_previewed >>
           ELSE IF HasBudget
           THEN /\ concurrent_preview_tasks' =
                       (concurrent_preview_tasks + 1) % U8Modulus
                /\ jobs' = jobs (+) SetToBag({ Job(name, command, delimiter,
                                                   "run", NoPreview) })
                /\ last_previewed' = stale(PreviewDefault)
                /\ ret' = Returned("spawned", last_previewed')
           ELSE /\ ret' = Returned("dropped", last_previewed)
                /\ UNCHANGED << concurrent_preview_tasks, jobs, last_previewed >>
    /\ UNCHANGED << cache, in_flight_previews, halted, selected, bench >>

\* variant of preview that waits for a free slot instead of dropping the request
preview_awaits_slot(name, command, delimiter) ==
    /\ ~halted
    /\ LET hit == get(cache, cache_key(name, command))
       IN  IF hit.some
           THEN /\ ret' = Returned("hit", hit.val)
                /\ UNCHANGED << concurrent_preview_tasks, jobs >>
           ELSE IF name \in in_flight_previews
           THEN /\ ret' = Returned("in_flight", last_previewed)
                /\ UNCHANGED << concurrent_preview_tasks, jobs >>
           ELSE /\ HasBudget
                /\ concurrent_preview_tasks' =
                       (concurrent_preview_tasks + 1) % U8Modulus
                /\ jobs' = jobs (+) SetToBag({ Job(name, command, delimiter,
                                                   "run", NoPreview) })
                /\ ret' = Returned("spawned", last_previewed)
    /\ UNCHANGED << cache, last_previewed, in_flight_previews, halted, selected, bench >>

\* the body of Previewer::preview (lines 106-154): what it returns and what
\* it writes to the previewer
preview_call(name, command, delimiter) ==
    /\ ~halted
    /\ LET hit == get(cache, cache_key(name, command))
       IN  IF hit.some
           THEN /\ ret' = Returned("hit", hit.val)
                /\ UNCHANGED << concurrent_preview_tasks, jobs >>
           ELSE IF name \in in_flight_previews
           THEN /\ ret' = Returned("in_flight", last_previewed)
                /\ UNCHANGED << concurrent_preview_tasks, jobs >>
           ELSE IF HasBudget
           THEN /\ concurrent_preview_tasks' =
                       (concurrent_preview_tasks + 1) % U8Modulus
                /\ jobs' = jobs (+) SetToBag({ Job(name, command, delimiter,
                                                   "run", NoPreview) })
                /\ ret' = Returned("spawned", last_previewed)
           ELSE /\ ret' = Returned("dropped", last_previewed)
                /\ UNCHANGED << concurrent_preview_tasks, jobs >>
    /\ UNCHANGED << cache, last_previewed, in_flight_previews, halted >>

\* Previewer::preview (lines 106-154), called by the render loop
preview(name, command, delimiter) ==
    /\ preview_call(name, command, delimiter)
    /\ UNCHANGED << selected, bench >>

\* the formatted command of a task
JobCommand(j) == format_command(j.command, j.delimiter, j.name)

\* AtomicU8::fetch_sub(1) of line 233
fetch_sub(n) == (n + U8Modulus - 1) % U8Modulus

\* try_preview when format_command returns None (line 196 false, line 233)
try_preview_skip(j) ==
    /\ ~halted
    /\ j \in BagToSet(jobs) /\ j.pc = "run"
    /\ JobCommand(j).tag = "None"
    /\ concurrent_preview_tasks' = fetch_sub(concurrent_preview_tasks)
    /\ jobs' = jobs (-) SetToBag({ j })
    /\ ret' = Stepped("skip")
    /\ UNCHANGED << cache, last_previewed, in_flight_previews, halted, selected, bench >>

\* try_preview when format_command panics (line 176): the panic hook of
\* init_eyre.rs:18-32 exits the process, line 233 is never reached
try_preview_format_panic(j) ==
    /\ ~halted
    /\ j \in BagToSet(jobs) /\ j.pc = "run"
    /\ JobCommand(j).tag = "Panic"
    /\ halted' = TRUE
    /\ jobs' = jobs (-) SetToBag({ j })
    /\ ret' = Stepped("format_panic")
    /\ UNCHANGED << cache, concurrent_preview_tasks, last_previewed,
                    in_flight_previews, selected, bench >>

\* try_preview when the shell cannot be launched: expect() of line 202 panics
try_preview_launch_panic(j) ==
    /\ ~halted
    /\ j \in BagToSet(jobs) /\ j.pc = "run"
    /\ JobCommand(j).tag = "Some"
    /\ halted' = TRUE
    /\ jobs' = jobs (-) SetToBag({ j })
    /\ ret' = Stepped("launch_panic")
    /\ UNCHANGED << cache, concurrent_preview_tasks, last_previewed,
                    in_flight_previews, selected, bench >>

\* try_preview, the subprocess exits with success: lines 204-214
try_preview_success(j, stdout) ==
    /\ ~halted
    /\ j \in BagToSet(jobs) /\ j.pc = "run"
    /\ JobCommand(j).tag = "Some"
    /\ LET p == SuccessPreview(j.name, stdout)
       IN  /\ cache' = insert(cache, cache_key(j.name, j.command), p)
           /\ jobs' = (jobs (-) SetToBag({ j }))
                        (+) SetToBag({ [ j EXCEPT !.pc = "last", !.preview = p ] })
    /\ ret' = Stepped("success")
    /\ UNCHANGED << concurrent_preview_tasks, last_previewed,
                    in_flight_previews, halted, selected, bench >>

\* variant of try_preview_last that stores the preview as it is
try_preview_last_not_stale(j) ==
    /\ ~halted
    /\ j \in BagToSet(jobs) /\ j.pc = "last"
    /\ last_previewed' = j.preview
    /\ jobs' = (jobs (-) SetToBag({ j }))
                 (+) SetToBag({ [ j EXCEPT !.pc = "dec", !.preview = NoPreview ] })
    /\ ret' = Stepped("last")
    /\ UNCHANGED << cache, concurrent_preview_tasks, in_flight_previews,
                    halted, selected, bench >>

\* try_preview after a success: lines 215-216
try_preview_last(j) ==
    /\ ~halted
    /\ j \in BagToSet(jobs) /\ j.pc = "last"
    /\ last_previewed' = stale(j.preview)
    /\ jobs' = (jobs (-) SetToBag({ j }))
                 (+) SetToBag({ [ j EXCEPT !.pc = "dec", !.preview = NoPreview ] })
    /\ ret' = Stepped("last")
    /\ UNCHANGED << cache, concurrent_preview_tasks, in_flight_previews,
                    halted, selected, bench >>

\* variant of try_preview_failure that does not cache the error preview
try_preview_failure_uncached(j, stderr) ==
    /\ ~halted
    /\ j \in BagToSet(jobs) /\ j.pc = "run"
    /\ JobCommand(j).tag = "Some"
    /\ jobs' = (jobs (-) SetToBag({ j }))
                 (+) SetToBag({ [ j EXCEPT !.pc = "dec" ] })
    /\ ret' = Stepped("failure")
    /\ UNCHANGED << cache, concurrent_preview_tasks, last_previewed,
                    in_flight_previews, halted, selected, bench >>

\* try_preview, the subprocess exits with a failure status: lines 217-230
try_preview_failure(j, stderr) ==
    /\ ~halted
    /\ j \in BagToSet(jobs) /\ j.pc = "run"
    /\ JobCommand(j).tag = "Some"
    /\ cache' = insert(cache, cache_key(j.name, j.command),
                       ErrorPreview(j.name, JobCommand(j).cmd, stderr))
    /\ jobs' = (jobs (-) SetToBag({ j }))
                 (+) SetToBag({ [ j EXCEPT !.pc = "dec" ] })
    /\ ret' = Stepped("failure")
    /\ UNCHANGED << concurrent_preview_tasks, last_previewed,
                    in_flight_previews, halted, selected, bench >>

\* try_preview, line 233: the task releases its slot and ends
try_preview_end(j) ==
    /\ ~halted
    /\ j \in BagToSet(jobs) /\ j.pc = "dec"
    /\ concurrent_preview_tasks' = fetch_sub(concurrent_preview_tasks)
    /\ jobs' = jobs (-) SetToBag({ j })
    /\ ret' = Stepped("end")
    /\ UNCHANGED << cache, last_previewed, in_flight_previews, halted, selected, bench >>

Next ==
    \/ \E n \in Names, c \in Templates, d \in Delimiters : preview(n, c, d)
    \/ \E j \in BagToSet(jobs) : try_preview_skip(j)
    \/ \E j \in BagToSet(jobs) : try_preview_format_panic(j)
    \/ \E j \in BagToSet(jobs) : try_preview_launch_panic(j)
    \/ \E j \in BagToSet(jobs), o \in Stdouts : try_preview_success(j, o)
    \/ \E j \in BagToSet(jobs) : try_preview_last(j)
    \/ \E j \in BagToSet(jobs), e \in Stderrs : try_preview_failure(j, e)
    \/ \E j \in BagToSet(jobs) : try_preview_end(j)

Spec == Init /\ [][Next]_vars

(***************************************************************************)
(* The render loop (model/television.rs:586-590) polls preview() for the   *)
(* selected entry on every frame.  SpecPoll starts when the user stops on  *)
(* a previewable entry: the frames drawn before have left up to            *)
(* MAX_CONCURRENT_PREVIEW_TASKS tasks running, for any entries; from then  *)
(* on the selected entry alone is polled.                                  *)
(***************************************************************************)
\* the entry has a non-blank name whose fields satisfy the placeholders
Previewable(n, c, d) == format_command(c, d, n).tag = "Some"

\* the tasks that earlier frames can have spawned
SpawnedJobs ==
    { Job(n, c, d, "run", NoPreview) :
        n \in Names, c \in Templates, d \in Delimiters }

RECURSIVE SeqToBag(_)
SeqToBag(q) ==
    IF q = << >> THEN EmptyBag ELSE SetToBag({ Head(q) }) (+) SeqToBag(Tail(q))

\* up to MAX_CONCURRENT_PREVIEW_TASKS spawned tasks, none of which has run yet
LeftoverJobs ==
    { SeqToBag(q) :
        q \in UNION { [ 1..k -> SpawnedJobs ] :
                        k \in 0..MAX_CONCURRENT_PREVIEW_TASKS } }

\* Previewer state after the frames drawn while browsing, before any task has
\* taken a step, with the user now on a previewable entry
InitPoll ==
    /\ cache = PreviewCacheNew(CacheCapacity)
    /\ jobs \in LeftoverJobs
    /\ concurrent_preview_tasks = BagCardinality(jobs)
    /\ last_previewed = stale(PreviewDefault)
    /\ in_flight_previews = {}
    /\ halted = FALSE
    /\ ret = Stepped("new")
    /\ ring = with_capacity(CacheCapacity)
    /\ rendered_preview_cache =
         RenderedPreviewCacheNew(DEFAULT_RENDERED_PREVIEW_CACHE_SIZE)
    /\ history = << >>
    /\ parser = ParserIdle
    /\ television = TelevisionNew
    /\ picker = PickerNew
    /\ selected \in { << n, c, d >> : n \in Names, c \in Templates,
                                      d \in Delimiters }
    /\ Previewable(selected[1], selected[2], selected[3])

\* a frame drawn while the user stays on the selected entry
poll_selected ==
    /\ selected # Unselected
    /\ preview(selected[1], selected[2], selected[3])

\* some spawned task takes its next step
task_step ==
    \E j \in BagToSet(jobs) :
        \/ try_preview_skip(j)
        \/ try_preview_format_panic(j)
        \/ try_preview_launch_panic(j)
        \/ \E o \in Stdouts : try_preview_success(j, o)
        \/ try_preview_last(j)
        \/ \E e \in Stderrs : try_preview_failure(j, e)
        \/ try_preview_end(j)

NextPoll ==
    \/ poll_selected
    \/ \E j \in BagToSet(jobs) : try_preview_skip(j)
    \/ \E j \in BagToSet(jobs) : try_preview_format_panic(j)
    \/ \E j \in BagToSet(jobs) : try_preview_launch_panic(j)
    \/ \E j \in BagToSet(jobs), o \in Stdouts : try_preview_success(j, o)
    \/ \E j \in BagToSet(jobs) : try_preview_last(j)
    \/ \E j \in BagToSet(jobs), e \in Stderrs : try_preview_failure(j, e)
    \/ \E j \in BagToSet(jobs) : try_preview_end(j)

\* the render loop keeps drawing frames and the runtime keeps running the
\* spawned tasks, whose subprocesses terminate
SpecPoll ==
    InitPoll /\ [][NextPoll]_vars /\ WF_vars(poll_selected) /\ WF_vars(task_step)

(***************************************************************************)
(* The Previewer over entries and commands of which two different pairs    *)
(* concatenate to the same cache key: "a" ++ "b{}" = "ab" ++ "{}".  Every  *)
(* command here formats for every name, so the None and panic paths of     *)
(* try_preview do not occur.                                               *)
(***************************************************************************)
CollidingNames == { <<"a">>, <<"a", "b">> }
CollidingTemplates == { <<"{", "}">>, <<"b", "{", "}">> }

NextKeys ==
    \/ \E n \in CollidingNames, c \in CollidingTemplates, d \in Delimiters :
         preview(n, c, d)
    \/ \E j \in BagToSet(jobs) : try_preview_launch_panic(j)
    \/ \E j \in BagToSet(jobs), o \in Stdouts : try_preview_success(j, o)
    \/ \E j \in BagToSet(jobs) : try_preview_last(j)
    \/ \E j \in BagToSet(jobs), e \in Stderrs : try_preview_failure(j, e)
    \/ \E j \in BagToSet(jobs) : try_preview_end(j)

SpecKeys == Init /\ [][NextKeys]_vars

(***************************************************************************)
(* A RingSet used on its own, as test_ring_set does (previewer.rs:471-511):*)
(* built by with_capacity, then pushed with keys.  history records every   *)
(* push: the key, the value push returned, and whether the key was absent  *)
(* when pushed.  The Previewer stays as Previewer::new left it.            *)
(***************************************************************************)
\* largest capacity given to RingSet::with_capacity
MaxCapacity == 3
\* keys are 1..MaxRingKey
MaxRingKey == 4
\* number of pushes made on one RingSet
MaxPushes == 5

RingKeys == 1..MaxRingKey

\* the Previewer as Previewer::new leaves it, but for its cache
PreviewerNew ==
    /\ concurrent_preview_tasks = 0
    /\ last_previewed = stale(PreviewDefault)
    /\ in_flight_previews = {}
    /\ jobs = EmptyBag
    /\ halted = FALSE
    /\ ret = Stepped("new")
    /\ selected = Unselected

previewer_vars ==
    << cache, concurrent_preview_tasks, last_previewed, in_flight_previews,
       jobs, halted, ret, selected >>

\* RingSet::with_capacity(capacity), for any capacity a usize can hold
InitRing ==
    /\ PreviewerNew
    /\ cache = PreviewCacheNew(CacheCapacity)
    /\ ring \in { with_capacity(capacity) : capacity \in 0..MaxCapacity }
    /\ rendered_preview_cache =
         RenderedPreviewCacheNew(DEFAULT_RENDERED_PREVIEW_CACHE_SIZE)
    /\ history = << >>
    /\ parser = ParserIdle
    /\ television = TelevisionNew
    /\ picker = PickerNew

\* ring.push(item)
ring_push(item) ==
    /\ Len(history) < MaxPushes
    /\ ring' = push(ring, item).rs
    /\ history' = Append(history, [ key    |-> item,
                                    result |-> push(ring, item).popped,
                                    fresh  |-> ~contains(ring, item) ])
    /\ UNCHANGED << previewer_vars, television, picker, rendered_preview_cache, parser >>

NextRing == \E item \in RingKeys : ring_push(item)

SpecRing == InitRing /\ [][NextRing]_vars

(***************************************************************************)
(* A PreviewCache or a RenderedPreviewCache used on its own: built by new  *)
(* with a capacity of at least one entry (the program builds them with 100 *)
(* and 25), then called with insert and get.  One behaviour calls one of   *)
(* the two caches; history records every call.                             *)
(***************************************************************************)
\* number of calls made on one cache
MaxCalls == 4

\* the keys "k", "kk", ...: one more than the largest capacity
KeyOf(i) == [ j \in 1..i |-> "k" ]
CacheKeys == { KeyOf(i) : i \in 1..(CacheCapacity + 1) }

\* the values stored: previews, and the widgets rendered from them
CachedPreviews == { SuccessPreview(<<"a">>, <<"x">>),
                    ErrorPreview(<<"a">>, <<"c">>, <<"e">>) }
Widgets == { "paragraph 1", "paragraph 2" }

Call(target, op, key) == [ target |-> target, op |-> op, key |-> key ]

\* the calls of one behaviour go to one cache
CallOn(target) ==
    /\ Len(history) < MaxCalls
    /\ history # << >> => history[1].target = target

InitCache ==
    /\ PreviewerNew
    /\ \E capacity \in 1..CacheCapacity :
         /\ cache = PreviewCacheNew(capacity)
         /\ rendered_preview_cache = RenderedPreviewCacheNew(capacity)
    /\ ring = with_capacity(CacheCapacity)
    /\ history = << >>
    /\ parser = ParserIdle
    /\ television = TelevisionNew
    /\ picker = PickerNew

\* cache.insert(key, value)
cache_insert(key, value) ==
    /\ CallOn("PreviewCache")
    /\ cache' = insert(cache, key, value)
    /\ history' = Append(history, Call("PreviewCache", "insert", key))
    /\ UNCHANGED << concurrent_preview_tasks, last_previewed, in_flight_previews,
                    jobs, halted, selected, ret, ring, rendered_preview_cache,
                    parser,
                    television, picker >>

\* cache.get(key)
cache_get(key) ==
    /\ CallOn("PreviewCache")
    /\ history' = Append(history, Call("PreviewCache", "get", key))
    /\ ret' = IF get(cache, key).some
              THEN Returned("hit", get(cache, key).val)
              ELSE Stepped("miss")
    /\ UNCHANGED << cache, concurrent_preview_tasks, last_previewed,
                    in_flight_previews, jobs, halted, selected, ring,
                    rendered_preview_cache, parser,
                    television, picker >>

\* rendered_preview_cache.insert(key, widget)
rendered_cache_insert(key, widget) ==
    /\ CallOn("RenderedPreviewCache")
    /\ rendered_preview_cache' = rendered_insert(rendered_preview_cache, key, widget)
    /\ history' = Append(history, Call("RenderedPreviewCache", "insert", key))
    /\ UNCHANGED << previewer_vars, television, picker, ring, parser >>

\* rendered_preview_cache.get(key)
rendered_cache_get(key) ==
    /\ CallOn("RenderedPreviewCache")
    /\ history' = Append(history, Call("RenderedPreviewCache", "get", key))
    /\ UNCHANGED << previewer_vars, television, picker, ring, rendered_preview_cache, parser >>

NextCache ==
    \/ \E key \in CacheKeys, value \in CachedPreviews : cache_insert(key, value)
    \/ \E key \in CacheKeys : cache_get(key)
    \/ \E key \in CacheKeys, widget \in Widgets : rendered_cache_insert(key, widget)
    \/ \E key \in CacheKeys : rendered_cache_get(key)

SpecCache == InitCache /\ [][NextCache]_vars

(***************************************************************************)
(* format_command called on its own, on any entry name, command template   *)
(* and delimiter built of a few pieces.  Entry names are lines of any      *)
(* text, so they may hold blanks, delimiters and braces.  selected holds    *)
(* the arguments and history the value returned.                           *)
(***************************************************************************)
\* number of pieces an entry name is built of
MaxNamePieces == 3
\* number of pieces a command template is built of
MaxTemplatePieces == 2

NamePieces == { <<"a">>, <<"b">>, <<":">>, <<" ">>, <<"{", "}">>, <<"{", "1", "}">> }
TemplatePieces == { <<"c">>, <<"{">>, <<"}">>, <<"{", "}">>,
                    <<"{", "0", "}">>, <<"{", "1", "}">> }
FormatDelimiters == { <<":">>, <<" ">> }

\* the concatenation of a sequence of strings
RECURSIVE Flatten(_)
Flatten(pieces) ==
    IF pieces = << >> THEN << >> ELSE Head(pieces) \o Flatten(Tail(pieces))

\* the strings built of at most n of the pieces
Built(pieces, n) ==
    { Flatten(q) : q \in UNION { [ 1..m -> pieces ] : m \in 0..n } }

\* the arguments: an entry name, a command template and a delimiter
InitFormat ==
    /\ selected \in Built(NamePieces, MaxNamePieces)
                       \X Built(TemplatePieces, MaxTemplatePieces)
                       \X FormatDelimiters
    /\ history = << >>
    /\ parser = ParserIdle
    /\ television = TelevisionNew
    /\ picker = PickerNew
    /\ cache = PreviewCacheNew(CacheCapacity)
    /\ concurrent_preview_tasks = 0
    /\ last_previewed = stale(PreviewDefault)
    /\ in_flight_previews = {}
    /\ jobs = EmptyBag
    /\ halted = FALSE
    /\ ret = Stepped("new")
    /\ ring = with_capacity(CacheCapacity)
    /\ rendered_preview_cache =
         RenderedPreviewCacheNew(DEFAULT_RENDERED_PREVIEW_CACHE_SIZE)

\* format_command(&command, &delimiter, &entry)
call_format_command ==
    /\ history = << >>
    /\ history' = << format_command(selected[2], selected[3], selected[1]) >>
    /\ UNCHANGED << previewer_vars, television, picker, ring, rendered_preview_cache, parser >>

NextFormat == call_format_command

SpecFormat == InitFormat /\ [][NextFormat]_vars

(***************************************************************************)
(* ansi::parser::text called on its own, on any byte input built of a few  *)
(* pieces (text, line endings, a bare ESC, an invalid UTF-8 byte, SGR, CSI *)
(* and OSC sequences), on the inputs of the unit tests, and on one SGR     *)
(* sequence per parameter list.  One step is one iteration of the line     *)
(* loop of text or of the span loop of line.                               *)
(***************************************************************************)
\* number of pieces an input is built of
MaxAnsiPieces == 3

DigitChars == << "0", "1", "2", "3", "4", "5", "6", "7", "8", "9" >>

\* decimal digits of n
RECURSIVE Decimal(_)
Decimal(n) ==
    IF n < 10 THEN << DigitChars[n + 1] >>
    ELSE Decimal(n \div 10) \o << DigitChars[(n % 10) + 1] >>

\* the parameters of an SGR sequence, separated by semicolons
RECURSIVE Params(_)
Params(ps) ==
    IF ps = << >> THEN << >>
    ELSE IF Len(ps) = 1 THEN Decimal(ps[1])
    ELSE Decimal(ps[1]) \o << ";" >> \o Params(Tail(ps))

\* ESC [ params m
Sgr(ps) == << ESC, "[" >> \o Params(ps) \o << "m" >>

\* a CSI sequence that is no SGR code, and an OSC sequence
clear_screen == << ESC, "[", "2", "J" >>
set_title == << ESC, "]", "0", ";", "t", BEL >>

AnsiPieces ==
    { << "a" >>, << "[" >>, << "3" >>, << LF >>, << CR >>, << ESC >>, << "xFF" >>,
      Sgr(<< >>), Sgr(<< 0 >>), Sgr(<< 1 >>), Sgr(<< 33 >>),
      clear_screen, set_title }

hello == << "h", "e", "l", "l", "o" >>
world == << "w", "o", "r", "l", "d" >>
garbage == << "g", "a", "r", "b", "a", "g", "e" >>

\* the modifiers of codes 1 to 9
AllModifiers == << 1, 2, 3, 4, 5, 6, 7, 8, 9 >>

\* the inputs of test_color_reset and test_color_reset_implicit_escape, an
\* unterminated sequence, and text after a reset of every modifier
ExampleInputs ==
    { Sgr(<< 33 >>) \o hello \o Sgr(<< 0 >>) \o << LF >> \o world,
      Sgr(<< 33 >>) \o hello \o Sgr(<< >>) \o << LF >> \o world,
      << ESC, "[" >> \o garbage,
      << "a" >> \o clear_screen \o << "b" >> \o set_title \o << "a" >>,
      Sgr(AllModifiers) \o hello \o Sgr(<< 0 >>) \o world \o << LF >> \o << "a" >>,
      Sgr(AllModifiers) \o hello \o Sgr(<< >>) \o world \o << LF >> \o << "a" >> }

\* byte values a colour parameter takes
ByteSamples == { 0, 10, 20, 30, 255 }

\* parameter lists of one SGR sequence: every single code (and one beyond a
\* u8), indexed and true colours, and colour types other than 2 and 5
ParamLists ==
    { << c >> : c \in 0..256 }
    \cup { << 38, 5, n >> : n \in 0..256 }
    \cup { << 48, 5, n >> : n \in ByteSamples }
    \cup { << 38, 2, r, g, b >> : r \in ByteSamples, g \in ByteSamples, b \in ByteSamples }
    \cup { << 48, 2, r, g, b >> : r \in ByteSamples, g \in ByteSamples, b \in { 30 } }
    \cup { << 38, 2, r, 10, 20 >> : r \in 0..256 }
    \cup { << 38, 2, 10, g, 20 >> : g \in 0..256 }
    \cup { << 38, 2, 10, 20, b >> : b \in 0..256 }
    \cup { << 38, t, n >> : t \in { 0, 1, 3, 4, 6 }, n \in { 200 } }

\* text styled by one SGR sequence, on a default or an already set style
StyledInputs ==
    { prefix \o Sgr(ps) \o << "a" >> :
        prefix \in { << >>, Sgr(<< 1, 33 >>) \o << "b" >> }, ps \in ParamLists }

AnsiInputs ==
    Built(AnsiPieces, MaxAnsiPieces) \cup ExampleInputs \cup StyledInputs

\* the locals of line (ansi.rs:155-182)
LineLocals(s, text, spans, last_style) ==
    [ s |-> s, text |-> text, spans |-> spans, last_style |-> last_style ]

\* text(input) at its loop (ansi.rs:126-128)
ParserStart(input) ==
    [ input |-> input, pc |-> "text", s |-> input, lines |-> << >>,
      last_style |-> StyleNew,
      line |-> LineLocals(<< >>, << >>, << >>, StyleNew) ]

InitAnsi ==
    /\ PreviewerNew
    /\ cache = PreviewCacheNew(CacheCapacity)
    /\ ring = with_capacity(CacheCapacity)
    /\ rendered_preview_cache =
         RenderedPreviewCacheNew(DEFAULT_RENDERED_PREVIEW_CACHE_SIZE)
    /\ history = << >>
    /\ parser \in { ParserStart(input) : input \in AnsiInputs }
    /\ television = TelevisionNew
    /\ picker = PickerNew

\* line_start with a line that starts in the default style
line_start_default_style ==
    /\ parser.pc = "text"
    /\ \E r \in { not_line_ending(parser.s) } :
         parser' =
             IF ~r.ok THEN [ parser EXCEPT !.pc = "done" ]
             ELSE [ parser EXCEPT
                      !.pc = "line",
                      !.line = LineLocals(line_ending(r.rest), r.val, << >>,
                                          StyleNew) ]
    /\ UNCHANGED << previewer_vars, television, picker, ring, rendered_preview_cache, history >>

\* one test of the loop of text (line 128): line(last_style)(s) up to its
\* span loop (lines 158-163), or its error, which ends text
line_start ==
    /\ parser.pc = "text"
    /\ \E r \in { not_line_ending(parser.s) } :
         parser' =
             IF ~r.ok THEN [ parser EXCEPT !.pc = "done" ]
             ELSE [ parser EXCEPT
                      !.pc = "line",
                      !.line = LineLocals(line_ending(r.rest), r.val, << >>,
                                          parser.last_style) ]
    /\ UNCHANGED << previewer_vars, television, picker, ring, rendered_preview_cache, history >>

\* one iteration of the span loop of line (lines 165-176)
line_span ==
    /\ parser.pc = "line"
    /\ \E l \in { parser.line }, r \in { span(parser.line.last_style, parser.line.text) } :
         parser' =
             IF ~r.ok THEN [ parser EXCEPT !.pc = "return" ]
             ELSE [ parser EXCEPT
                      !.pc = IF r.rest = << >> THEN "return" ELSE "line",
                      !.line = LineLocals(
                                 l.s, r.rest,
                                 IF r.val.content # << >>
                                 THEN Append(l.spans, r.val) ELSE l.spans,
                                 patch(l.last_style, r.val.style)) ]
    /\ UNCHANGED << previewer_vars, television, picker, ring, rendered_preview_cache, history >>

\* line returns (line 179) and text takes its result (lines 129-134)
line_return ==
    /\ parser.pc = "return"
    /\ parser' = [ parser EXCEPT
                     !.lines = Append(parser.lines, parser.line.spans),
                     !.last_style = parser.line.last_style,
                     !.s = parser.line.s,
                     !.pc = IF parser.line.s = << >> THEN "done" ELSE "text" ]
    /\ UNCHANGED << previewer_vars, television, picker, ring, rendered_preview_cache, history >>

NextAnsi == line_start \/ line_span \/ line_return

SpecAnsi == InitAnsi /\ [][NextAnsi]_vars

\* text is one sequential call: a step that can be taken is taken
SpecAnsiRun == InitAnsi /\ [][NextAnsi]_vars /\ WF_vars(NextAnsi)

(***************************************************************************)
(* Preview::total_lines called on its own, on previews of every content    *)
(* variant: texts built of a few pieces, and texts of about u16::MAX lines. *)
(***************************************************************************)
\* number of pieces a text is built of
MaxTextPieces == 3
\* how many lines beyond u16::MAX the longest text has
MaxExtraLines == 2

TextPieces == { << "a" >>, << LF >>, << CR, LF >>, << CR >> }

\* n lines, each ended by LF, and the same without the last LF
EmptyLines(n) == [ i \in 1..n |-> LF ]
OpenLines(n) == [ i \in 1..(2 * n - 1) |-> IF i % 2 = 1 THEN "a" ELSE LF ]

LongTexts ==
    { EmptyLines(n) : n \in (u16_MAX - 1)..(u16_MAX + MaxExtraLines) }
    \cup { OpenLines(n) : n \in u16_MAX..(u16_MAX + 1) }

LinePreviews ==
    { PreviewNew(<< >>, content, st) :
        content \in { Empty, FileTooLarge, Loading, NotSupported }
                    \cup { AnsiText(t) : t \in Built(TextPieces, MaxTextPieces)
                                               \cup LongTexts },
        st \in BOOLEAN }

\* the argument: a preview
InitLines ==
    /\ selected \in { << p >> : p \in LinePreviews }
    /\ history = << >>
    /\ parser = ParserIdle
    /\ television = TelevisionNew
    /\ picker = PickerNew
    /\ cache = PreviewCacheNew(CacheCapacity)
    /\ concurrent_preview_tasks = 0
    /\ last_previewed = stale(PreviewDefault)
    /\ in_flight_previews = {}
    /\ jobs = EmptyBag
    /\ halted = FALSE
    /\ ret = Stepped("new")
    /\ ring = with_capacity(CacheCapacity)
    /\ rendered_preview_cache =
         RenderedPreviewCacheNew(DEFAULT_RENDERED_PREVIEW_CACHE_SIZE)

\* preview.total_lines()
call_total_lines ==
    /\ history = << >>
    /\ history' = << total_lines(selected[1]) >>
    /\ UNCHANGED << previewer_vars, television, picker, ring, rendered_preview_cache, parser >>

NextLines == call_total_lines

SpecLines == InitLines /\ [][NextLines]_vars

(***************************************************************************)
(* The preview pane of a frame (television.rs:586-612, view/preview.rs):   *)
(* Television::draw asks the previewer for the preview of the selected     *)
(* entry and hands it to draw_preview, which renders it unless the rendered*)
(* cache already holds a widget under the entry's key.  Entries carry an   *)
(* optional line number (entry.rs:31).                                     *)
(***************************************************************************)
\* utils.rs:1319
TAB_WIDTH == 4
\* utils.rs:1316, the character U+2400
NULL_SYMBOL == "u2400"

\* replace_non_printable (utils.rs:1362-1415) under the configuration of
\* preview.rs:131-139: tabs are replaced, line feeds and control characters
\* are kept, characters above U+0700 that are not CJK become NULL_SYMBOL
RECURSIVE replace_non_printable(_)
replace_non_printable(input) ==
    IF input = << >> THEN << >>
    ELSE ( CASE Head(input) = "\t" -> [ i \in 1..TAB_WIDTH |-> " " ]
             [] Head(input) \in { "uFFFD", "xFF" } -> << NULL_SYMBOL >>
             [] OTHER -> << Head(input) >> )
         \o replace_non_printable(Tail(input))

\* the span loop of line (ansi.rs:165-176): the spans of one line and the
\* style it ends with
RECURSIVE line_spans(_, _, _)
line_spans(last, s, spans) ==
    The({ IF ~r.ok THEN [ spans |-> spans, last_style |-> last ]
          ELSE The({ IF r.rest = << >>
                     THEN [ spans |-> more, last_style |-> patch(last, r.val.style) ]
                     ELSE line_spans(patch(last, r.val.style), r.rest, more)
                   : more \in { IF r.val.content # << >>
                                THEN Append(spans, r.val) ELSE spans } })
        : r \in { span(last, s) } })

\* the loop of text (ansi.rs:124-137): the lines parsed from s
RECURSIVE text_lines(_, _, _)
text_lines(s, last, lines) ==
    The({ IF ~r.ok THEN lines
          ELSE The({ IF line_ending(r.rest) = << >>
                     THEN Append(lines, l.spans)
                     ELSE text_lines(line_ending(r.rest), l.last_style,
                                     Append(lines, l.spans))
                   : l \in { line_spans(last, r.val, << >>) } })
        : r \in { not_line_ending(s) } })

\* IntoText of a byte string (ansi.rs:105-137)
into_text(s) == text_lines(s, StyleNew, << >>)

\* the widget draw_preview builds from a preview (view/preview.rs:129-167)
render(p, preview_scroll) ==
    CASE p.content.kind = "AnsiText" ->
           [ widget |-> "Paragraph",
             text   |-> into_text(replace_non_printable(p.content.text)),
             scroll |-> preview_scroll ]
      [] p.content.kind = "Empty" ->
           [ widget |-> "Paragraph", text |-> << >>, scroll |-> 0 ]
      [] OTHER ->
           [ widget |-> "Meta", text |-> p.content.kind, scroll |-> 0 ]

\* an entry of the results list: its name and its line number
Entry(name, line_number) == [ name |-> name, line_number |-> line_number ]

\* the key of the rendered cache (view/preview.rs:104-110)
rendered_key(entry, command) ==
    entry.name
    \o ( IF entry.line_number.some THEN Decimal(entry.line_number.val) ELSE << >> )
    \o command

\* draw_preview (view/preview.rs:104-176): the rendered cache it leaves
draw_preview(c, entry, p, command, preview_scroll) ==
    IF rendered_get(c, rendered_key(entry, command)).some THEN c
    ELSE IF ~p.stale
    THEN rendered_insert(c, rendered_key(entry, command), render(p, preview_scroll))
    ELSE c

\* the entries on screen: the match on line 12 of file a and the match on
\* line 2 of file a1
DrawEntries == { Entry(<< "a" >>, Some(12)), Entry(<< "a", "1" >>, Some(2)) }
\* the channel's preview command
DrawTemplates == { << "{", "}" >> }
\* the height of the preview area of the layout
DrawHeights == { 30 }

\* what the command of a task prints: each command an output of its own
StdoutOf(j) == JobCommand(j).cmd

\* u16::try_from(l).unwrap_or(0) of line 598
u16_try_from_or_0(l) == IF l <= u16_MAX THEN l ELSE 0

\* u16::saturating_sub
saturating_sub(a, b) == IF a >= b THEN a - b ELSE 0

\* maybe_init_preview_scroll (television.rs:761-765): the preview_scroll it
\* leaves; running is self.channel.running()
maybe_init_preview_scroll(preview_scroll, running, target_line, height) ==
    IF ~preview_scroll.some /\ ~running
    THEN Some(saturating_sub(IF target_line.some THEN target_line.val ELSE 0,
                             height \div 3))
    ELSE preview_scroll

\* Option::unwrap_or(0)
unwrap_or_0(o) == IF o.some THEN o.val ELSE 0

\* what Television::draw writes to the scroll fields (television.rs:588-599)
\* for a preview area of the given height, a preview of lines lines and an
\* entry with the given line number
draw_scroll_fields(tv, height, lines, line_number, running) ==
    [ preview_pane_height |-> height,
      current_preview_total_lines |-> lines,
      preview_scroll |->
          maybe_init_preview_scroll(
              tv.preview_scroll, running,
              IF line_number.some
              THEN Some(u16_try_from_or_0(line_number.val)) ELSE None,
              height) ]

\* the preview part of Television::draw (television.rs:586-612), for a layout
\* whose preview area has the given height
draw(entry, command, delimiter, height, running) ==
    /\ preview_call(entry.name, command, delimiter)
    /\ television' =
           draw_scroll_fields(television, height, total_lines(ret'.value),
                              entry.line_number, running)
    /\ rendered_preview_cache' =
           draw_preview(rendered_preview_cache, entry, ret'.value, command,
                        unwrap_or_0(television'.preview_scroll))
    /\ UNCHANGED << selected, ring, history, parser, picker >>

\* reset_preview_scroll (television.rs:767-769), called when the selection or
\* the channel changes (lines 220-263)
reset_preview_scroll ==
    /\ ~halted
    /\ television' = [ television EXCEPT !.preview_scroll = None ]
    /\ ret' = Stepped("reset_preview_scroll")
    /\ UNCHANGED << cache, concurrent_preview_tasks, last_previewed,
                    in_flight_previews, jobs, halted, selected, ring,
                    rendered_preview_cache, history, parser, picker >>

NextDraw ==
    \/ \E e \in DrawEntries, c \in DrawTemplates, d \in Delimiters,
          h \in DrawHeights, running \in BOOLEAN : draw(e, c, d, h, running)
    \/ reset_preview_scroll
    \/ \E j \in BagToSet(jobs) : try_preview_success(j, StdoutOf(j))
    \/ \E j \in BagToSet(jobs) : try_preview_last(j)
    \/ \E j \in BagToSet(jobs), e \in Stderrs : try_preview_failure(j, e)
    \/ \E j \in BagToSet(jobs) : try_preview_end(j)

SpecDraw == Init /\ [][NextDraw]_vars

(***************************************************************************)
(* Scrolling the preview pane (television.rs:793-811).  A frame sets the   *)
(* pane height, the line count of the preview and, when it is unset, the   *)
(* scroll; the scroll actions move it.  The fields are u16.  scroll +      *)
(* offset and 2 * preview_pane_height are plain u16 operations: when the   *)
(* result does not fit, a build with overflow checks panics and a build    *)
(* without them wraps.  history counts the scroll calls made.              *)
(***************************************************************************)
\* number of scroll calls made in one run
MaxScrollCalls == 2

\* heights of the preview area
ScrollHeights == { 0, 1, 30, 32768, u16_MAX }
\* line counts of the previews shown
ScrollLines == { 0, 1, 100, u16_MAX }
\* line numbers of the selected entries
ScrollLineNumbers == { None, Some(0), Some(65530), Some(u16_MAX), Some(u16_MAX + 1) }
\* offsets: one line and half a page (television.rs:271-282), and the largest
ScrollOffsets == { 1, 20, u16_MAX }

\* a scroll call: its offset, the fields it found, and whether it panicked
ScrollCall(op, offset, before, panicked) ==
    [ branch |-> op, value |-> NoPreview, offset |-> offset, before |-> before,
      panicked |-> panicked ]

Min(a, b) == IF a <= b THEN a ELSE b
Max(a, b) == IF a >= b THEN a ELSE b

InitScroll ==
    /\ PreviewerNew
    /\ cache = PreviewCacheNew(CacheCapacity)
    /\ ring = with_capacity(CacheCapacity)
    /\ rendered_preview_cache =
         RenderedPreviewCacheNew(DEFAULT_RENDERED_PREVIEW_CACHE_SIZE)
    /\ history = << >>
    /\ parser = ParserIdle
    /\ television = TelevisionNew
    /\ picker = PickerNew

\* a frame drawn on an entry with a preview of some number of lines
draw_frame(height, lines, line_number, running) ==
    /\ ~halted
    /\ television' = draw_scroll_fields(television, height, lines, line_number,
                                        running)
    /\ ret' = Stepped("draw")
    /\ UNCHANGED << cache, concurrent_preview_tasks, last_previewed,
                    in_flight_previews, jobs, halted, selected, ring,
                    rendered_preview_cache, history, parser, picker >>

\* scroll_preview_down (lines 793-805) with wrapping u16 arithmetic
scroll_preview_down(offset) ==
    /\ ~halted
    /\ Len(history) < MaxScrollCalls
    /\ television' =
           [ television EXCEPT !.preview_scroll =
               Some(Min(as_u16(unwrap_or_0(television.preview_scroll) + offset),
                        saturating_sub(
                            television.current_preview_total_lines,
                            as_u16(2 * television.preview_pane_height) \div 3))) ]
    /\ ret' = ScrollCall("scroll_preview_down", offset, television, FALSE)
    /\ history' = Append(history, "scroll_preview_down")
    /\ UNCHANGED << cache, concurrent_preview_tasks, last_previewed,
                    in_flight_previews, jobs, halted, selected, ring,
                    rendered_preview_cache, parser, picker >>

\* scroll_preview_down (lines 793-805) when scroll + offset or
\* 2 * preview_pane_height overflows and overflow is checked: the panic hook
\* ends the process after lines 794-796
scroll_preview_down_overflow(offset) ==
    /\ ~halted
    /\ Len(history) < MaxScrollCalls
    /\ \/ unwrap_or_0(television.preview_scroll) + offset > u16_MAX
       \/ 2 * television.preview_pane_height > u16_MAX
    /\ television' =
           [ television EXCEPT !.preview_scroll =
               Some(unwrap_or_0(television.preview_scroll)) ]
    /\ halted' = TRUE
    /\ ret' = ScrollCall("scroll_preview_down", offset, television, TRUE)
    /\ history' = Append(history, "scroll_preview_down")
    /\ UNCHANGED << cache, concurrent_preview_tasks, last_previewed,
                    in_flight_previews, jobs, selected, ring,
                    rendered_preview_cache, parser, picker >>

\* scroll_preview_up (lines 807-811)
scroll_preview_up(offset) ==
    /\ ~halted
    /\ Len(history) < MaxScrollCalls
    /\ television' =
           IF television.preview_scroll.some
           THEN [ television EXCEPT !.preview_scroll =
                    Some(saturating_sub(television.preview_scroll.val, offset)) ]
           ELSE television
    /\ ret' = ScrollCall("scroll_preview_up", offset, television, FALSE)
    /\ history' = Append(history, "scroll_preview_up")
    /\ UNCHANGED << cache, concurrent_preview_tasks, last_previewed,
                    in_flight_previews, jobs, halted, selected, ring,
                    rendered_preview_cache, parser, picker >>

NextScroll ==
    \/ \E h \in ScrollHeights, n \in ScrollLines, l \in ScrollLineNumbers,
          running \in BOOLEAN : draw_frame(h, n, l, running)
    \/ reset_preview_scroll
    \/ \E offset \in ScrollOffsets : scroll_preview_down(offset)
    \/ \E offset \in ScrollOffsets : scroll_preview_down_overflow(offset)
    \/ \E offset \in ScrollOffsets : scroll_preview_up(offset)

SpecScroll == InitScroll /\ [][NextScroll]_vars

(***************************************************************************)
(* A Picker used on its own, as test_picker does (picker.rs:69-115): built *)
(* by Picker::new, inverted or not, then moved over a list of total_items  *)
(* items shown in a pane of the given height.  selected holds total_items  *)
(* and height; ret records the latest call.                                *)
(***************************************************************************)
\* largest number of items of the list
MaxItems == 4
\* largest height of the pane
MaxHeight == 3
\* largest step of one call
MaxStep == 2

\* Picker::inverted (picker.rs:39-42)
inverted(p) == [ p EXCEPT !.inverted = ~p.inverted ]

\* _select_next without the reset of the relative index on wrapping
_select_next_no_reset(p, total_items, height) ==
    [ p EXCEPT !.state = Some((unwrap_or_0(p.state) + 1) % total_items),
               !.relative_state =
                   Some(Min(unwrap_or_0(p.relative_state) + 1, height)) ]

\* Picker::_select_next (picker.rs:93-103)
_select_next(p, total_items, height) ==
    [ p EXCEPT !.state = Some((unwrap_or_0(p.state) + 1) % total_items),
               !.relative_state =
                   IF (unwrap_or_0(p.state) + 1) % total_items = 0
                   THEN Some(0)
                   ELSE Some(Min(unwrap_or_0(p.relative_state) + 1, height)) ]

\* Picker::_select_prev (picker.rs:105-115)
_select_prev(p, total_items, height) ==
    [ p EXCEPT !.state =
                   Some((unwrap_or_0(p.state) + (total_items - 1)) % total_items),
               !.relative_state =
                   IF (unwrap_or_0(p.state) + (total_items - 1)) % total_items
                        = total_items - 1
                   THEN Some(height)
                   ELSE Some(saturating_sub(unwrap_or_0(p.relative_state), 1)) ]

\* the loops `for _ in 0..step` of lines 71-78 and 83-90
RECURSIVE next_times(_, _, _, _)
next_times(p, step, total_items, height) ==
    IF step = 0 THEN p
    ELSE next_times(_select_next(p, total_items, height), step - 1,
                    total_items, height)

RECURSIVE prev_times(_, _, _, _)
prev_times(p, step, total_items, height) ==
    IF step = 0 THEN p
    ELSE prev_times(_select_prev(p, total_items, height), step - 1,
                    total_items, height)

\* Picker::select_next (picker.rs:69-79)
select_next(p, step, total_items, height) ==
    IF p.inverted THEN prev_times(p, step, total_items, height)
    ELSE next_times(p, step, total_items, height)

\* Picker::select_prev (picker.rs:81-91)
select_prev(p, step, total_items, height) ==
    IF p.inverted THEN next_times(p, step, total_items, height)
    ELSE prev_times(p, step, total_items, height)

\* a call on the picker: its step and the picker it found
PickerCall(op, step, before) ==
    [ branch |-> op, value |-> NoPreview, step |-> step, before |-> before ]

\* the list and the pane of the run
total_items == selected[1]
height == selected[2]

InitPicker ==
    /\ cache = PreviewCacheNew(CacheCapacity)
    /\ concurrent_preview_tasks = 0
    /\ last_previewed = stale(PreviewDefault)
    /\ in_flight_previews = {}
    /\ jobs = EmptyBag
    /\ halted = FALSE
    /\ ret = Stepped("new")
    /\ selected \in (1..MaxItems) \X (0..MaxHeight)
    /\ ring = with_capacity(CacheCapacity)
    /\ rendered_preview_cache =
         RenderedPreviewCacheNew(DEFAULT_RENDERED_PREVIEW_CACHE_SIZE)
    /\ history = << >>
    /\ parser = ParserIdle
    /\ television = TelevisionNew
    /\ picker \in { PickerNew, inverted(PickerNew) }

\* Picker::reset_selection (picker.rs:44-47)
reset_selection ==
    /\ picker' = [ picker EXCEPT !.state = Some(0), !.relative_state = Some(0) ]
    /\ ret' = PickerCall("reset_selection", 0, picker)
    /\ UNCHANGED << cache, concurrent_preview_tasks, last_previewed,
                    in_flight_previews, jobs, halted, selected, bench_no_picker >>

\* a call of Picker::select_next
call_select_next(step) ==
    /\ picker' = select_next(picker, step, total_items, height)
    /\ ret' = PickerCall("select_next", step, picker)
    /\ UNCHANGED << cache, concurrent_preview_tasks, last_previewed,
                    in_flight_previews, jobs, halted, selected, bench_no_picker >>

\* a call of Picker::select_prev
call_select_prev(step) ==
    /\ picker' = select_prev(picker, step, total_items, height)
    /\ ret' = PickerCall("select_prev", step, picker)
    /\ UNCHANGED << cache, concurrent_preview_tasks, last_previewed,
                    in_flight_previews, jobs, halted, selected, bench_no_picker >>

NextPicker ==
    \/ reset_selection
    \/ \E step \in 1..MaxStep : call_select_next(step)
    \/ \E step \in 1..MaxStep : call_select_prev(step)

SpecPicker == InitPicker /\ [][NextPicker]_vars

(***************************************************************************)
(* Properties.                                                             *)
(***************************************************************************)
\* the number of tasks started for entry name n that have not ended
JobsFor(n) ==
    LET S == { j \in BagToSet(jobs) : j.name = n }
    IN  BagCardinality([ j \in S |-> jobs[j] ])

\* the number of tasks started that have not ended
Outstanding == BagCardinality(jobs)

\* C1: in every reachable state at most one background job is outstanding
\* per entry name (a second preview() for an entry whose job is still running
\* starts no further job).
C1_OneJobPerEntry == \A n \in Names : JobsFor(n) <= 1

\* C2: the concurrency counter stays within [0, MAX_CONCURRENT]; the 8-bit
\* counter neither exceeds 3 nor wraps below 0.
C2_CounterInRange ==
    concurrent_preview_tasks \in 0..MAX_CONCURRENT_PREVIEW_TASKS

\* the counter has reached the limit through a preview() call that started a
\* task, after an earlier task had already ended
C2_Witness ==
    /\ concurrent_preview_tasks = MAX_CONCURRENT_PREVIEW_TASKS
    /\ ret.branch = "spawned"
    /\ DOMAIN cache.entries # {}

\* C3: at counter = MAX_CONCURRENT, preview() for an uncached entry that is
\* not in flight returns last_known and changes nothing; the request is not
\* queued: a task appears only in the preview() call made for it.
C3_ExhaustedBudgetDrops ==
    [][ /\ \A n \in Names, c \in Templates, d \in Delimiters :
             ( /\ preview(n, c, d)
               /\ concurrent_preview_tasks = MAX_CONCURRENT_PREVIEW_TASKS
               /\ cache_key(n, c) \notin DOMAIN cache.entries
               /\ n \notin in_flight_previews )
             => /\ ret'.value = last_previewed
                /\ jobs' = jobs
                /\ concurrent_preview_tasks' = concurrent_preview_tasks
                /\ in_flight_previews' = in_flight_previews
                /\ cache' = cache
                /\ last_previewed' = last_previewed
        /\ \A j \in BagToSet(jobs') :
             CopiesIn(j, jobs') > CopiesIn(j, jobs) /\ j.pc = "run"
             => /\ preview(j.name, j.command, j.delimiter)
                /\ concurrent_preview_tasks < MAX_CONCURRENT_PREVIEW_TASKS
      ]_vars

\* a request has just been dropped with MAX_CONCURRENT tasks outstanding
C3_Witness ==
    /\ ret.branch = "dropped"
    /\ ret.value = last_previewed
    /\ concurrent_preview_tasks = MAX_CONCURRENT_PREVIEW_TASKS
    /\ Outstanding = MAX_CONCURRENT_PREVIEW_TASKS

\* C4: on a cache hit preview() returns exactly the cached Preview, starts no
\* task and leaves counter, in-flight set, last_known, cache contents and
\* eviction order unchanged.
C4_HitReturnsCached ==
    [][ \A n \in Names, c \in Templates, d \in Delimiters :
          ( preview(n, c, d) /\ (n \o c) \in DOMAIN cache.entries )
          => /\ ret'.value = cache.entries[n \o c]
             /\ jobs' = jobs
             /\ concurrent_preview_tasks' = concurrent_preview_tasks
             /\ in_flight_previews' = in_flight_previews
             /\ last_previewed' = last_previewed
             /\ cache' = cache
      ]_vars

\* a hit has just returned a cached value while tasks were outstanding
C4_Witness ==
    /\ ret.branch = "hit"
    /\ \E k \in DOMAIN cache.entries : ret.value = cache.entries[k]
    /\ Outstanding > 0

\* C5: preview() never waits: in every state of the running process every
\* preview() call can complete, whatever the tasks are doing.
C5_PreviewNeverWaits ==
    ~halted => \A n \in Names, c \in Templates, d \in Delimiters :
                   ENABLED preview(n, c, d)

\* MAX_CONCURRENT tasks are outstanding, each still in its subprocess, and a
\* preview() call has just returned
C5_Witness ==
    /\ Outstanding = MAX_CONCURRENT_PREVIEW_TASKS
    /\ \A j \in BagToSet(jobs) : j.pc = "run"
    /\ ret.branch = "dropped"
    /\ ~halted

\* C6: every started task releases its slot on every exit path, so once all
\* started tasks have ended the counter is 0 again.
C6_AllEndedCounterZero ==
    jobs = EmptyBag => concurrent_preview_tasks = 0

\* C7: the counter equals the number of tasks started and not yet ended.
C7_CounterCountsJobs == concurrent_preview_tasks = Outstanding

\* C8: a task whose subprocess exits with success puts under name ++ template
\* an AnsiText Preview of its stdout, titled with the name, stale = false,
\* replacing any prior value; it then stores the stale copy in last_known.
C8_SuccessCachesAndMarksLast ==
    [][ /\ \A j \in BagToSet(jobs), o \in Stdouts :
             try_preview_success(j, o)
             => /\ (j.name \o j.command) \in DOMAIN cache'.entries
                /\ cache'.entries[j.name \o j.command] =
                     [ title |-> j.name,
                       content |-> [ kind |-> "AnsiText",
                                     text |-> FromUtf8Lossy(o) ],
                       icon |-> "None", stale |-> FALSE ]
                /\ \E k \in BagToSet(jobs') :
                     /\ k.pc = "last" /\ k.name = j.name /\ k.command = j.command
                     /\ k.preview = cache'.entries[j.name \o j.command]
        /\ \A j \in BagToSet(jobs) :
             try_preview_last(j)
             => /\ last_previewed' = [ j.preview EXCEPT !.stale = TRUE ]
                /\ last_previewed'.title = j.name
                /\ last_previewed'.content.kind = "AnsiText"
                /\ cache' = cache
      ]_vars

\* a successful task has just stored in last_known the stale copy of the fresh
\* AnsiText Preview that the cache holds
C8_Witness ==
    /\ ret.branch = "last"
    /\ \E k \in DOMAIN cache.entries :
         /\ cache.entries[k].stale = FALSE
         /\ last_previewed = [ cache.entries[k] EXCEPT !.stale = TRUE ]
         /\ last_previewed.content.kind = "AnsiText"

\* C9: a task whose subprocess exits with a failure puts under its key an
\* AnsiText Preview of its stderr, leaves last_known alone, propagates no
\* error and starts nothing; a later preview() for the key returns the cached
\* error preview and starts no task.
C9_FailureCachedNotRetried ==
    [][ /\ \A j \in BagToSet(jobs), e \in Stderrs :
             try_preview_failure(j, e)
             => /\ (j.name \o j.command) \in DOMAIN cache'.entries
                /\ cache'.entries[j.name \o j.command] =
                     [ title |-> j.name,
                       content |-> [ kind |-> "AnsiText",
                                     text |-> ErrorPrefix \o JobCommand(j).cmd
                                                \o << "\n" >> \o FromUtf8Lossy(e) ],
                       icon |-> "None", stale |-> FALSE ]
                /\ last_previewed' = last_previewed
                /\ halted' = FALSE
                /\ Outstanding' = Outstanding
        /\ \A n \in Names, c \in Templates, d \in Delimiters :
             ( /\ preview(n, c, d)
               /\ (n \o c) \in DOMAIN cache.entries
               /\ SubSeq(cache.entries[n \o c].content.text, 1, 1) = ErrorPrefix )
             => /\ ret'.value = cache.entries[n \o c]
                /\ jobs' = jobs
                /\ concurrent_preview_tasks' = concurrent_preview_tasks
      ]_vars

\* a preview() call has just returned a cached error preview
C9_Witness ==
    /\ ret.branch = "hit"
    /\ SubSeq(ret.value.content.text, 1, 1) = ErrorPrefix
    /\ ret.value.stale = FALSE

\* C10: a task for a blank entry name (format_command yields None) runs no
\* subprocess, leaves cache and last_known unchanged and still decrements the
\* counter when it ends.
C10_BlankNameSkips ==
    [][ \A j \in BagToSet(jobs) :
          ( /\ TrimIsEmpty(j.name)
            /\ CopiesIn(j, jobs') < CopiesIn(j, jobs) )
          => /\ ret'.branch = "skip"
             /\ cache' = cache
             /\ last_previewed' = last_previewed
             /\ concurrent_preview_tasks' = concurrent_preview_tasks - 1
             /\ Outstanding' = Outstanding - 1
             /\ halted' = FALSE
      ]_vars

\* a task for a blank name has just ended and released the only slot in use
C10_Witness ==
    /\ ret.branch = "skip"
    /\ concurrent_preview_tasks = 0
    /\ jobs = EmptyBag

\* the latest poll of the selected entry returned the value cached under its
\* key, a Preview titled with its name and not stale
SelectedObserved ==
    /\ selected # Unselected
    /\ ret.branch = "hit"
    /\ (selected[1] \o selected[2]) \in DOMAIN cache.entries
    /\ ret.value = cache.entries[selected[1] \o selected[2]]
    /\ ret.value.title = selected[1]
    /\ ret.value.stale = FALSE

Writes(j) ==
    \/ \E o \in Stdouts : try_preview_success(j, o)
    \/ \E e \in Stderrs : try_preview_failure(j, e)

\* C12: the Preview under the key of (E, C) comes from a task that ran C for
\* E: a task for a different (entry, command) pair never creates or replaces
\* the value stored under the key of (E, C).
C12_OnlyOwnPairWrites ==
    [][ \A j \in BagToSet(jobs) :
          \A n \in CollidingNames \cup Names, c \in CollidingTemplates \cup Templates :
            ( /\ Writes(j)
              /\ << n, c >> # << j.name, j.command >>
              /\ cache_key(n, c) \in DOMAIN cache'.entries )
            => /\ cache_key(n, c) \in DOMAIN cache.entries
               /\ cache'.entries[cache_key(n, c)] = cache.entries[cache_key(n, c)]
      ]_vars

\* the ring set's size: the length of its queue
Size(rs) == Len(rs.ring_buffer)

\* the keys of the queue
QueueKeys(rs) == { rs.ring_buffer[i] : i \in 1..Len(rs.ring_buffer) }

\* the position in history of the push that put the present key k in the ring
InsertTime(k) ==
    CHOOSE i \in 1..Len(history) :
        /\ history[i].key = k
        /\ history[i].fresh
        /\ \A j \in (i + 1)..Len(history) :
              ~(history[j].key = k /\ history[j].fresh)

\* the value returned by the latest push
LastResult == history[Len(history)].result

\* C14: eviction is insertion-order FIFO.  A push of a new key into a ring set
\* that is at capacity removes and returns the key inserted earliest among
\* those present; a push of a new key below capacity returns None; a push of
\* a key already present leaves the key evicted next the same.
C14_FifoEviction ==
    [][ \A k \in RingKeys : ring_push(k) =>
          LET r == history'[Len(history')].result
          IN  /\ ( ~contains(ring, k) /\ Size(ring) < ring.capacity )
                    => ~r.some
              /\ ( ~contains(ring, k) /\ Size(ring) >= ring.capacity
                                      /\ ring.known_keys # {} )
                    => /\ r.some
                       /\ r.val \in ring.known_keys
                       /\ \A p \in ring.known_keys :
                             InsertTime(r.val) <= InsertTime(p)
                       /\ ~contains(ring', r.val)
                       /\ ring'.known_keys =
                            (ring.known_keys \ { r.val }) \cup { k }
              /\ contains(ring, k)
                    => \A n \in RingKeys \ ring.known_keys :
                         push(ring', n).popped = push(ring, n).popped
      ]_vars

\* a full ring set has evicted a key after a key already present was pushed
\* again
C14_Witness ==
    /\ Len(history) >= 2
    /\ LastResult.some
    /\ \E i \in 1..(Len(history) - 1) : ~history[i].fresh
    /\ ring.capacity >= 2
    /\ Size(ring) = ring.capacity

\* C15: a push of a key that is already present returns None and leaves the
\* queue order, the membership set and the size unchanged.
C15_RepushIsNoOp ==
    [][ \A k \in RingKeys : ( ring_push(k) /\ contains(ring, k) ) =>
          /\ ~history'[Len(history')].result.some
          /\ ring'.ring_buffer = ring.ring_buffer
          /\ ring'.known_keys = ring.known_keys
          /\ Size(ring') = Size(ring)
      ]_vars

\* the latest push was of a key that was present, in a ring set holding
\* several keys of which it was not the newest
C15_Witness ==
    /\ history # << >>
    /\ ~history[Len(history)].fresh
    /\ Size(ring) >= 2
    /\ ring.ring_buffer[Size(ring)] # history[Len(history)].key

\* C16: after any sequence of pushes on a ring set of any capacity, the queue
\* and the membership set hold exactly the same elements, the queue holds no
\* duplicate, and the number of elements is at most the capacity.
C16_RingSetInvariant ==
    /\ QueueKeys(ring) = ring.known_keys
    /\ \A i, j \in 1..Size(ring) :
          ring.ring_buffer[i] = ring.ring_buffer[j] => i = j
    /\ Size(ring) <= ring.capacity

\* the keys pushed so far, in order
Pushed == [ i \in 1..Len(history) |-> history[i].key ]

\* C17 as claimed: in a ring set of capacity 3 pushed with 1,2,3,1,4, the
\* fourth push returns None and changes nothing, and the fifth push evicts 2.
C17_FifthPushEvictsTwo ==
    /\ ( ring.capacity = 3 /\ Pushed = << 1, 2, 3, 1 >> )
         => /\ ~LastResult.some
            /\ ring.ring_buffer = << 1, 2, 3 >>
            /\ ring.known_keys = { 1, 2, 3 }
    /\ ( ring.capacity = 3 /\ Pushed = << 1, 2, 3, 1, 4 >> )
         => /\ LastResult.some
            /\ LastResult.val = 2

\* C17 amended: in a ring set of capacity 3 pushed with 1,2,3,1,4, the fourth
\* push returns None and changes nothing, and the fifth push evicts 1, the
\* oldest key, leaving 2, 3 and 4.
C17_FifthPushEvictsOne ==
    /\ ( ring.capacity = 3 /\ Pushed = << 1, 2, 3, 1 >> )
         => /\ ~LastResult.some
            /\ ring.ring_buffer = << 1, 2, 3 >>
            /\ ring.known_keys = { 1, 2, 3 }
    /\ ( ring.capacity = 3 /\ Pushed = << 1, 2, 3, 1, 4 >> )
         => /\ LastResult.some
            /\ LastResult.val = 1
            /\ ring.ring_buffer = << 2, 3, 4 >>
            /\ ring.known_keys = { 2, 3, 4 }

\* the five pushes of test_ring_set have been made on a ring set of capacity 3
C17_Witness ==
    /\ ring.capacity = 3
    /\ Pushed = << 1, 2, 3, 1, 4 >>

\* the keys a get on the cache answers with Some
Retrievable(c) == { k \in CacheKeys : get(c, k).some }
RenderedRetrievable(c) == { k \in CacheKeys : rendered_get(c, k).some }

\* the keys of the inserts made so far, in order
Inserted == LET ins == SelectSeq(history, LAMBDA call : call.op = "insert")
            IN  [ i \in 1..Len(ins) |-> ins[i].key ]

\* capacity + 1 distinct keys have been inserted, and no more
OneTooMany(capacity) ==
    /\ Len(Inserted) = capacity + 1
    /\ \A i, j \in 1..Len(Inserted) : Inserted[i] = Inserted[j] => i = j

LastUse(k) ==
    LET uses == { i \in 1..Len(history) : history[i].key = k }
    IN  IF uses = {} THEN 0 ELSE CHOOSE i \in uses : \A j \in uses : j <= i

\* C18: PreviewCache is an LRU cache: the entry an insert evicts is the least
\* recently used one, so no key that stays was read by get or inserted longer
\* ago than the evicted key.
C18_EvictsLeastRecentlyUsed ==
    [][ \A key \in CacheKeys, value \in CachedPreviews :
          cache_insert(key, value) =>
            \A evicted \in DOMAIN cache.entries \ DOMAIN cache'.entries :
              \A kept \in DOMAIN cache.entries \ { evicted } :
                LastUse(evicted) <= LastUse(kept)
      ]_vars

\* the value format_command returned
Formatted == history[1]

\* the indexes N of the {N} placeholders of template s, from position i on
RECURSIVE IndexesUsed(_, _)
IndexesUsed(s, i) ==
    IF i > Len(s) THEN {}
    ELSE LET e == PlaceholderEnd(s, i)
         IN  IF e = 0 THEN IndexesUsed(s, i + 1)
             ELSE { DecimalValue(s, i + 1, e - 1) } \cup IndexesUsed(s, e + 1)

\* template s from position i on, with each {} replaced by name and each {N}
\* by fields[N + 1]
RECURSIVE Substituted(_, _, _, _)
Substituted(s, name, fields, i) ==
    IF i > Len(s) THEN << >>
    ELSE IF MatchAt(s, << "{", "}" >>, i)
         THEN name \o Substituted(s, name, fields, i + 2)
         ELSE LET e == PlaceholderEnd(s, i)
              IN  IF e = 0
                  THEN << s[i] >> \o Substituted(s, name, fields, i + 1)
                  ELSE fields[DecimalValue(s, i + 1, e - 1) + 1]
                         \o Substituted(s, name, fields, e + 1)

\* C19: for a non-blank name whose fields cover every index the template uses,
\* format_command returns the template with every {} replaced by the name and
\* every {N} by the N-th (0-based) field of the name split on the delimiter;
\* a template without placeholder is returned unchanged.
C19_SubstitutesPlaceholders ==
    LET name == selected[1]
        template == selected[2]
        fields == Split(name, selected[3])
    IN  ( /\ history # << >>
          /\ ~TrimIsEmpty(name)
          /\ \A n \in IndexesUsed(template, 1) : n < Len(fields) )
        => /\ Formatted.tag = "Some"
           /\ Formatted.cmd = Substituted(template, name, fields, 1)
           /\ ( /\ IndexesUsed(template, 1) = {}
                /\ \A i \in 1..Len(template) : ~MatchAt(template, << "{", "}" >>, i) )
                => Formatted.cmd = template

\* C20: format_command returns None exactly when the name is empty or only
\* whitespace, whatever the template and the delimiter; for any other name it
\* returns Some or panics with the configuration error.
C20_NoneIffBlankName ==
    history # << >> =>
        /\ Formatted.tag = "None" <=> TrimIsEmpty(selected[1])
        /\ ~TrimIsEmpty(selected[1]) => Formatted.tag \in { "Some", "Panic" }

\* format_command has returned None for a name of several blanks and a
\* template with a placeholder that no field of the name covers
C20_Witness ==
    /\ history # << >>
    /\ Formatted.tag = "None"
    /\ Len(selected[1]) >= 2
    /\ 1 \in IndexesUsed(selected[2], 1)

\* C21: when the template holds a placeholder {N} with N at or beyond the
\* number of fields of a non-blank name, format_command panics with the
\* configuration error and returns no command: never a command with the
\* placeholder kept, dropped or emptied.
C21_OutOfRangeIndexPanics ==
    LET name == selected[1]
        fields == Split(name, selected[3])
    IN  ( /\ history # << >>
          /\ ~TrimIsEmpty(name)
          /\ \E n \in IndexesUsed(selected[2], 1) : n >= Len(fields) )
        => /\ Formatted.tag = "Panic"
           /\ Formatted.cmd = << >>

\* format_command has panicked for a name of one field, free of braces, on a
\* template that uses {} and then {1}
C21_Witness ==
    /\ history # << >>
    /\ Formatted.tag = "Panic"
    /\ selected[1] = << "a" >>
    /\ selected[2] = << "{", "}", "{", "1", "}" >>

\* the span loop is at the head of an escape sequence that is no SGR code
\* ending in m, no CSI and no OSC sequence
AtLoneEscape ==
    /\ parser.pc = "line"
    /\ MatchAt(parser.line.text, << ESC >>, 1)
    /\ ~MatchAt(parser.line.text, << ESC, "[" >>, 1)
    /\ ~MatchAt(parser.line.text, << ESC, "]" >>, 1)

\* C22: the parser terminates on every input: text returns, every iteration
\* of the span loop shortens the text left of the line or ends the loop,
\* every iteration of the line loop shortens the input left or ends the
\* loop, and an ESC that starts no recognisable sequence is consumed
C22_Terminates ==
    /\ <>(parser.pc = "done")
    /\ [][ /\ parser.pc = "line"
              => \/ parser'.pc = "return"
                 \/ Len(parser'.line.text) < Len(parser.line.text)
           /\ parser.pc = "return"
              => \/ parser'.pc = "done"
                 \/ Len(parser'.s) < Len(parser.s)
         ]_vars
    /\ [](AtLoneEscape
           => /\ any_escape_sequence(parser.line.text).ok
              /\ Len(any_escape_sequence(parser.line.text).rest)
                   < Len(parser.line.text))

\* a lone ESC between two letters has been passed, and text has returned
C22_Witness ==
    /\ parser.input = << "a", ESC, "a" >>
    /\ parser.pc = "done"
    /\ Len(parser.lines) = 1
    /\ Len(parser.lines[1]) = 2

\* text has returned for this input
Parsed(input) == parser.input = input /\ parser.pc = "done"

\* the contents of the spans of the output, line by line
RECURSIVE Contents(_)
Contents(spans) ==
    IF spans = << >> THEN << >>
    ELSE spans[1].content \o Contents(Tail(spans))

\* the text the output shows
VisibleText == [ i \in 1..Len(parser.lines) |-> Contents(parser.lines[i]) ]

\* C23 as stated: ESC [ garbage is consumed without looping and none of it
\* is visible text of the output
C23_GarbageInvisible ==
    /\ (parser.input = << ESC, "[" >> \o garbage) ~> (parser.pc = "done")
    /\ [](Parsed(<< ESC, "[" >> \o garbage)
          => \A i \in 1..Len(VisibleText) : VisibleText[i] = << >>)

\* C23: ESC [ garbage is consumed without looping: ESC [ g is discarded as
\* a CSI sequence whose final letter is g, and the bytes after it are one
\* span of text in the style carried so far
C23_GarbageTailIsText ==
    /\ (parser.input = << ESC, "[" >> \o garbage) ~> (parser.pc = "done")
    /\ [](Parsed(<< ESC, "[" >> \o garbage)
          => parser.lines = << << Span(Tail(garbage), StyleNew) >> >>)

C23_Witness ==
    /\ Parsed(<< ESC, "[" >> \o garbage)
    /\ VisibleText = << Tail(garbage) >>

\* the bytes of the inputs that are no digit and no semicolon
NotParameter == Alphabetic \cup { ESC, BEL, LF, CR, "[", "]", "xFF" }

\* the length of the CSI sequence ESC [ params letter, with a letter other
\* than m, that s starts with; 0 when it starts with none
CsiLen(s) ==
    IF ~MatchAt(s, << ESC, "[" >>, 1) THEN 0
    ELSE LET p == PrefixLen(Drop(s, 2), NotParameter)
         IN  IF p + 3 <= Len(s) /\ s[p + 3] \in Alphabetic \ { "m" }
             THEN p + 3 ELSE 0

\* the length of the OSC sequence ESC ] ... BEL that s starts with; 0 when
\* it starts with none
OscLen(s) ==
    IF ~MatchAt(s, << ESC, "]" >>, 1) THEN 0
    ELSE LET p == PrefixLen(Drop(s, 2), { BEL })
         IN  IF p + 3 <= Len(s) THEN p + 3 ELSE 0

\* the span loop is at a CSI sequence not ending in m or at an OSC sequence,
\* and the text up to the next escape sequence is UTF-8
AtDiscarded ==
    /\ parser.pc = "line"
    /\ CsiLen(parser.line.text) + OscLen(parser.line.text) > 0
    /\ LET after == Drop(parser.line.text,
                         CsiLen(parser.line.text) + OscLen(parser.line.text))
       IN  ValidUtf8(Take(after, PrefixLen(after, { ESC })))

HelloWorld == Sgr(<< 33 >>) \o hello \o Sgr(<< 0 >>) \o << LF >> \o world

\* C25: a line starts in the style the line before it ended in, and the
\* example ESC[33m hello ESC[0m LF world yields the line of one yellow span
\* hello and the line of one span world in the reset style line 1 left
C25_StyleCarriesOver ==
    /\ [][ /\ parser.pc = "text" /\ parser'.pc = "line"
              => parser'.line.last_style = parser.last_style
           /\ parser.pc = "return"
              => parser'.last_style = parser.line.last_style ]_vars
    /\ [](Parsed(HelloWorld)
          => parser.lines =
               << << Span(hello, fg(StyleNew, Color("Yellow"))) >>,
                  << Span(world, fg(StyleNew, Color("Reset"))) >> >>)

\* the example has been parsed, and a second line started in a style that
\* is not the default one
C25_Witness ==
    /\ Parsed(HelloWorld)
    /\ Len(parser.lines) = 2
    /\ parser.lines[2][1].style # StyleNew

\* s with the SGR sequence it starts with replaced by the sequence ps
WithSgr(s, ps) ==
    Sgr(ps) \o Drop(s, 1 + PrefixLen(s, { "m" }))

\* two results of span that are the same error or the same span and text left
SameEffect(a, b) == a.ok = b.ok /\ ( a.ok => a.rest = b.rest /\ a.val = b.val )

\* the input of the second example: ESC[33m hello ESC[m LF world
HelloWorldImplicit == Sgr(<< 33 >>) \o hello \o Sgr(<< >>) \o << LF >> \o world

\* C26: ESC[m is ESC[0m: wherever the span loop meets one of the two, in
\* whatever style, span returns what it returns for the other one in its
\* place (the same span, the same style to carry, the same text left), and
\* the second example parses to the lines of the first
C26_EmptyBodyIsReset ==
    /\ ( parser.pc = "line" /\ MatchAt(parser.line.text, Sgr(<< >>), 1) )
       => SameEffect(span(parser.line.last_style, parser.line.text),
                     span(parser.line.last_style,
                          WithSgr(parser.line.text, << 0 >>)))
    /\ ( parser.pc = "line" /\ MatchAt(parser.line.text, Sgr(<< 0 >>), 1) )
       => SameEffect(span(parser.line.last_style, parser.line.text),
                     span(parser.line.last_style,
                          WithSgr(parser.line.text, << >>)))
    /\ Parsed(HelloWorldImplicit)
       => parser.lines =
            << << Span(hello, fg(StyleNew, Color("Yellow"))) >>,
               << Span(world, fg(StyleNew, Color("Reset"))) >> >>

\* the span loop is at an ESC[m, in a style with a colour and a modifier
C26_Witness ==
    /\ parser.pc = "line"
    /\ MatchAt(parser.line.text, Sgr(<< >>), 1)
    /\ parser.line.last_style.fg = Some(Color("Yellow"))
    /\ parser.line.last_style.add_modifier # {}

\* the span loop is at an ESC[0m or an ESC[m that span accepts
AtReset ==
    /\ parser.pc = "line"
    /\ \/ MatchAt(parser.line.text, Sgr(<< 0 >>), 1)
       \/ MatchAt(parser.line.text, Sgr(<< >>), 1)
    /\ span(parser.line.last_style, parser.line.text).ok

\* a colour of a style that shows as the default colour
DefaultColor(c) == c = None \/ c = Some(Color("Reset"))

\* C27: ESC[0m and ESC[m reset all attributes: the style carried after one
\* of them, to the text that follows on the line and to the later lines, has
\* no modifier and the default foreground and background
C27_ResetClearsAll ==
    [][ AtReset =>
          /\ parser'.line.last_style.add_modifier = {}
          /\ DefaultColor(parser'.line.last_style.fg)
          /\ DefaultColor(parser'.line.last_style.bg) ]_vars

\* the parameter lists of the background codes
BackgroundParams ==
    { << c >> : c \in (40..47) \cup (100..107) \cup { 49 } }
    \cup { << 48, 5, n >> : n \in ByteSamples }
    \cup { << 48, 2, r, g, 30 >> : r \in ByteSamples, g \in ByteSamples }

\* the background colour the parameter list ps names
BackgroundOf(ps) ==
    CASE ps[1] \in 40..47 -> Color(DarkColors[ps[1] - 39])
      [] ps[1] \in 100..107 -> Color(LightColors[ps[1] - 99])
      [] ps[1] = 49 -> Color("Reset")
      [] ps[1] = 48 /\ ps[2] = 5 -> Indexed(ps[3])
      [] ps[1] = 48 /\ ps[2] = 2 -> Rgb(ps[3], ps[4], ps[5])

\* C28: the codes 40-47 and 100-107, 48;5;N, 48;2;R;G;B and 49 set the
\* background of the carried style to the colour they name (49: to the
\* default), and none of them changes the foreground
C28_BackgroundCodes ==
    [][ \A ps \in BackgroundParams :
          ( parser.pc = "line" /\ MatchAt(parser.line.text, Sgr(ps), 1)
            /\ span(parser.line.last_style, parser.line.text).ok )
          => /\ parser'.line.last_style.bg = Some(BackgroundOf(ps))
             /\ parser'.line.last_style.fg = parser.line.last_style.fg ]_vars

\* the colour the parameter list ps of code 38 names
ForegroundOf(ps) ==
    IF ps[2] = 5 THEN Indexed(ps[3]) ELSE Rgb(ps[3], ps[4], ps[5])

\* the parameter lists 38;5;N and 38;2;R;G;B of the inputs with bytes as
\* arguments, and those with another colour type or an argument over 255
ColorParams ==
    { ps \in ParamLists :
        /\ Len(ps) > 1 /\ ps[1] = 38 /\ ps[2] \in { 2, 5 }
        /\ \A i \in 3..Len(ps) : ps[i] <= 255 }
NoColorParams ==
    { ps \in ParamLists : Len(ps) > 1 /\ ps[1] = 38 } \ ColorParams

\* the span loop is at the SGR sequence of ps, followed by text
AtSgr(ps) ==
    /\ parser.pc = "line"
    /\ MatchAt(parser.line.text, Sgr(ps) \o << "a" >>, 1)

\* C29: ESC[38;5;Nm sets the carried foreground to the indexed colour N and
\* ESC[38;2;R;G;Bm to the colour RGB(R,G,B), and nothing else of the style;
\* with another colour type after 38 (or an argument that is no byte) the
\* sequence sets no colour
C29_ExtendedForeground ==
    [][ ( parser.pc = "line" /\ MatchAt(parser.line.text, << ESC, "[", "3", "8", ";" >>, 1) )
        => /\ \A ps \in ColorParams :
                AtSgr(ps) =>
                  parser'.line.last_style =
                    [ parser.line.last_style EXCEPT !.fg = Some(ForegroundOf(ps)) ]
           /\ \A ps \in NoColorParams :
                AtSgr(ps) => parser'.line.last_style = parser.line.last_style ]_vars

\* text after ESC[38;5;200m, met in a bold yellow style, has been parsed
C29_Witness ==
    /\ Parsed(Sgr(<< 1, 33 >>) \o << "b" >> \o Sgr(<< 38, 5, 200 >>) \o << "a" >>)
    /\ parser.lines[1][2] =
         Span(<< "a" >>, [ fg |-> Some(Indexed(200)), bg |-> None,
                           add_modifier |-> { "BOLD" }, sub_modifier |-> {} ])

\* the number of bytes LF of s
RECURSIVE CountLF(_)
CountLF(s) ==
    IF s = << >> THEN 0
    ELSE ( IF s[1] = LF THEN 1 ELSE 0 ) + CountLF(Tail(s))

\* the lines of s: those a LF ends, and what is left after the last LF
InputLines(s) ==
    CountLF(s) + ( IF s # << >> /\ s[Len(s)] # LF THEN 1 ELSE 0 )

\* C30: the parser drops no line: the output of every input, one with a CR
\* that no LF follows, with invalid UTF-8 or with a malformed escape
\* sequence included, has a line for every line of the input
C30_NoLineDropped ==
    parser.pc = "done" => Len(parser.lines) >= InputLines(parser.input)

\* the positions of text at which a line starts
LineStarts(text) ==
    { i \in 1..Len(text) : i = 1 \/ text[i - 1] = LF }

\* C31: total_lines is the number of lines of an AnsiText content, 65535
\* when the content has more lines than that, and 0 for every other content
C31_TotalLinesSaturates ==
    history # << >> =>
      LET p == selected[1]
          n == Cardinality(LineStarts(p.content.text))
      IN  /\ history[1] \in 0..65535
          /\ p.content.kind = "AnsiText" /\ n <= 65535 => history[1] = n
          /\ p.content.kind = "AnsiText" /\ n > 65535 => history[1] = 65535
          /\ p.content.kind # "AnsiText" => history[1] = 0

\* total_lines has been called on a text of more than 65535 lines
C31_Witness ==
    /\ history = << 65535 >>
    /\ Cardinality(LineStarts(selected[1].content.text)) > 65535

\* C32: the in-flight set is exactly the set of the entry names that have a
\* background job outstanding
C32_InFlightIsOutstanding ==
    in_flight_previews = { n \in Names : JobsFor(n) > 0 }

\* the keys in the queue of a ring set
Queued(rs) == { rs.ring_buffer[i] : i \in 1..Len(rs.ring_buffer) }

\* C33: the keys of the map of a PreviewCache and of a RenderedPreviewCache
\* are the keys of its ring set; an insert under a key that is present
\* replaces the value and changes neither the keys nor the eviction order,
\* and a key the ring set gives up in an insert is out of the map after it
C33_MapMatchesRing ==
    /\ [](/\ DOMAIN cache.entries = cache.ring_set.known_keys
          /\ DOMAIN cache.entries = Queued(cache.ring_set)
          /\ DOMAIN rendered_preview_cache.previews
               = rendered_preview_cache.ring_set.known_keys
          /\ DOMAIN rendered_preview_cache.previews
               = Queued(rendered_preview_cache.ring_set))
    /\ [][ \A key \in CacheKeys, value \in CachedPreviews :
             cache_insert(key, value) =>
               /\ cache'.entries[key] = value
               /\ key \in DOMAIN cache.entries
                  => /\ DOMAIN cache'.entries = DOMAIN cache.entries
                     /\ cache'.ring_set = cache.ring_set
               /\ \A evicted \in Queued(cache.ring_set) \ Queued(cache'.ring_set) :
                    evicted \notin DOMAIN cache'.entries ]_vars
    /\ [][ \A key \in CacheKeys, widget \in Widgets :
             rendered_cache_insert(key, widget) =>
               /\ rendered_preview_cache'.previews[key] = widget
               /\ key \in DOMAIN rendered_preview_cache.previews
                  => /\ DOMAIN rendered_preview_cache'.previews
                          = DOMAIN rendered_preview_cache.previews
                     /\ rendered_preview_cache'.ring_set
                          = rendered_preview_cache.ring_set
               /\ \A evicted \in Queued(rendered_preview_cache.ring_set)
                                   \ Queued(rendered_preview_cache'.ring_set) :
                    evicted \notin DOMAIN rendered_preview_cache'.previews ]_vars

\* a PreviewCache has taken an insert under a key it held and, later, an
\* insert that evicted a key
C33_Witness ==
    /\ history # << >>
    /\ history[1].target = "PreviewCache"
    /\ Len(Inserted) >= 3
    /\ Inserted[1] = Inserted[2]
    /\ \E i \in 1..Len(Inserted) : Inserted[i] \notin DOMAIN cache.entries

\* the branches of preview()
PreviewBranches == { "hit", "in_flight", "spawned", "dropped" }

\* C34: preview() writes neither the cache nor last_previewed in any of its
\* branches; the cache changes only where a task stores its result and
\* last_previewed only at line 216 of a task; the branch that starts a task
\* adds one to the counter and one task, the other branches leave both
C34_PreviewWritesNothing ==
    [][ /\ ret'.branch \in PreviewBranches
           => /\ cache' = cache
              /\ last_previewed' = last_previewed
        /\ ret'.branch = "spawned"
           => /\ concurrent_preview_tasks' = concurrent_preview_tasks + 1
              /\ Outstanding' = Outstanding + 1
        /\ ret'.branch \in PreviewBranches \ { "spawned" }
           => /\ concurrent_preview_tasks' = concurrent_preview_tasks
              /\ jobs' = jobs
        /\ cache' # cache => ret'.branch \in { "success", "failure" }
        /\ last_previewed' # last_previewed => ret'.branch = "last" ]_vars

\* preview() has started a task while the cache held a result and
\* last_previewed the copy of one
C34_Witness ==
    /\ ret.branch = "spawned"
    /\ DOMAIN cache.entries # {}
    /\ last_previewed # stale(PreviewDefault)

\* C35: last_previewed is stale in every state: the stale Empty preview at
\* first, then the stale copy of the result of the task that last passed
\* line 216; every preview in the cache is not stale; so a preview that
\* preview() returns with stale = false is the one cached under the key of
\* its arguments
C35_StaleMarksPlaceholder ==
    /\ [](/\ last_previewed.stale
          /\ \A k \in DOMAIN cache.entries : ~cache.entries[k].stale)
    /\ [][ last_previewed' # last_previewed
           => \E j \in BagToSet(jobs) :
                /\ j.pc = "last"
                /\ ~j.preview.stale
                /\ last_previewed' = stale(j.preview) ]_vars
    /\ [][ \A name \in Names, command \in Templates, delimiter \in Delimiters :
             ( preview(name, command, delimiter) /\ ~ret'.value.stale )
             => get(cache, cache_key(name, command)) = Some(ret'.value) ]_vars

\* preview() has returned a cached preview, after a task had left its result
\* in last_previewed
C35_Witness ==
    /\ ret.branch = "hit"
    /\ ~ret.value.stale
    /\ last_previewed.content.kind = "AnsiText"

\* the previews try_preview can compute for entry e under command c: from the
\* output of the command formatted for e, or from its failure
ComputedFor(e, c) ==
    UNION { LET cmd == format_command(c, d, e.name).cmd
            IN  { SuccessPreview(e.name, cmd) }
                \cup { ErrorPreview(e.name, cmd, err) : err \in Stderrs }
          : d \in Delimiters }

\* C36: the widget the rendered cache holds under the key of (entry E,
\* command C) was rendered from a preview computed for E and C, never from a
\* placeholder nor from the preview of another entry
C36_RenderedFromOwnPreview ==
    \A e \in DrawEntries, c \in DrawTemplates :
        LET w == rendered_get(rendered_preview_cache, rendered_key(e, c))
        IN  w.some =>
              \E p \in ComputedFor(e, c) :
                  [ w.val EXCEPT !.scroll = 0 ] = render(p, 0)

\* the part of C36 the code keeps: every widget of the rendered cache was
\* rendered from a preview that is not stale and was computed for some entry
C36_RenderedFromFreshPreview ==
    \A k \in DOMAIN rendered_preview_cache.previews :
        \E e \in DrawEntries, c \in DrawTemplates :
            \E p \in ComputedFor(e, c) :
                /\ ~p.stale
                /\ [ rendered_preview_cache.previews[k] EXCEPT !.scroll = 0 ]
                       = render(p, 0)

\* s holds placeholder-like text: {} or {N}
HasPlaceholder(s) ==
    \E i \in 1..Len(s) : MatchAt(s, << "{", "}" >>, i) \/ PlaceholderEnd(s, i) # 0

\* C37: format_command inserts the name and its fields verbatim: for a name
\* that holds placeholder-like text, the result is the template with each {}
\* and {N} of the template itself replaced, the text of the name is not
\* expanded again, and an index error comes only from an index of the template
C37_NameInsertedVerbatim ==
    LET name == selected[1]
        template == selected[2]
        fields == Split(name, selected[3])
    IN  ( /\ history # << >>
          /\ ~TrimIsEmpty(name)
          /\ HasPlaceholder(name) )
        => IF \A n \in IndexesUsed(template, 1) : n < Len(fields)
           THEN /\ Formatted.tag = "Some"
                /\ Formatted.cmd = Substituted(template, name, fields, 1)
           ELSE Formatted.tag = "Panic"

\* the scroll call that has just run
AfterScroll(op) == ret.branch = op /\ "before" \in DOMAIN ret

\* C38: for all u16 values of the scroll, the offset, the line count and the
\* pane height, scroll_preview_down(offset) sets preview_scroll to
\* min(scroll + offset, max(0, total_lines - 2 * pane_height / 3)) and
\* scroll_preview_up(offset) sets it to max(0, scroll - offset), and neither
\* scroll + offset nor 2 * pane_height overflows 16 bits
C38_ScrollClamped ==
    /\ AfterScroll("scroll_preview_down") =>
         /\ ~ret.panicked
         /\ unwrap_or_0(ret.before.preview_scroll) + ret.offset <= u16_MAX
         /\ 2 * ret.before.preview_pane_height <= u16_MAX
         /\ television.preview_scroll =
              Some(Min(unwrap_or_0(ret.before.preview_scroll) + ret.offset,
                       Max(0, ret.before.current_preview_total_lines
                                - (2 * ret.before.preview_pane_height) \div 3)))
    /\ ( AfterScroll("scroll_preview_up") /\ ret.before.preview_scroll.some ) =>
         television.preview_scroll =
             Some(Max(0, ret.before.preview_scroll.val - ret.offset))

\* what holds of the scroll calls in which nothing overflows
C38_ScrollClampedWithoutOverflow ==
    /\ ( /\ AfterScroll("scroll_preview_down")
         /\ unwrap_or_0(ret.before.preview_scroll) + ret.offset <= u16_MAX
         /\ 2 * ret.before.preview_pane_height <= u16_MAX ) =>
         /\ ~ret.panicked
         /\ television.preview_scroll =
              Some(Min(unwrap_or_0(ret.before.preview_scroll) + ret.offset,
                       Max(0, ret.before.current_preview_total_lines
                                - (2 * ret.before.preview_pane_height) \div 3)))
    /\ ( AfterScroll("scroll_preview_up") /\ ret.before.preview_scroll.some ) =>
         television.preview_scroll =
             Some(Max(0, ret.before.preview_scroll.val - ret.offset))

\* the call that has just run on the picker
AfterPickerCall(op, step) ==
    /\ "step" \in DOMAIN ret
    /\ ret.branch = op
    /\ ret.step = step

\* C39: once an item is selected, after any sequence of select_next and
\* select_prev over total_items >= 1 items the selected index is in
\* [0, total_items) and the relative index in [0, height]; select_next on the
\* last item wraps to index 0 with relative index 0, select_prev on item 0
\* wraps to total_items - 1 with relative index height, and on an inverted
\* picker select_next moves as select_prev does on a picker that is not
C39_PickerStaysInRange ==
    /\ picker.state.some =>
         /\ picker.state.val \in 0..(total_items - 1)
         /\ picker.relative_state.some
         /\ picker.relative_state.val \in 0..height
    /\ ( /\ AfterPickerCall("select_next", 1)
         /\ ~ret.before.inverted
         /\ unwrap_or_0(ret.before.state) = total_items - 1 ) =>
         /\ picker.state = Some(0)
         /\ picker.relative_state = Some(0)
    /\ ( /\ AfterPickerCall("select_prev", 1)
         /\ ~ret.before.inverted
         /\ unwrap_or_0(ret.before.state) = 0 ) =>
         /\ picker.state = Some(total_items - 1)
         /\ picker.relative_state = Some(height)
    /\ \A step \in 1..MaxStep :
         ( AfterPickerCall("select_next", step) /\ ret.before.inverted ) =>
           picker = inverted(select_prev(inverted(ret.before), step,
                                         total_items, height))

\* select_next has run on the last of four items, shown in a pane of height
\* two, and has wrapped to the first
C39_Witness ==
    /\ AfterPickerCall("select_next", 1)
    /\ total_items = 4 /\ height = 2
    /\ ~ret.before.inverted
    /\ ret.before.state = Some(3) /\ ret.before.relative_state = Some(2)
    /\ picker.state = Some(0) /\ picker.relative_state = Some(0)

====
